---- MODULE Spec2Model ----
(***************************************************************************)
(* The matching engine of the agnostic orderbook: the two price-priority   *)
(* trees (bids, asks), the event queue, and the entry points new_order,    *)
(* cancel_order and consume_events.                                        *)
(*                                                                         *)
(* Integers are scaled down to fit the model checker: a u64 is U64Bits     *)
(* wide, the low half of an order id is KeyLowBits wide (64 in the         *)
(* program) and a price has FracBits fractional bits (32 in the program).  *)
(***************************************************************************)
EXTENDS Integers, Sequences, FiniteSets, TLC

VARIABLES
    bids,     \* the bids Slab: [leaves, cb_len]
    asks,     \* the asks Slab: [leaves, cb_len]
    queue,    \* the EventQueue: [head, count, seq_num, buffer]
    market,   \* the MarketState: [tag, caller_authority, fee_budget]
    tags,     \* the account tags of the event-queue, bids and asks buffers
    open,     \* history: the posts reported to the caller and not reported removed
    last,     \* history: what the last call did (result, summary, steps, events)
              \* and who signed it (authority)
    calls,    \* history: the number of calls made so far
    pushed,   \* history (queue specification): the events push_back accepted
    popped    \* history (queue specification): the values pop_front returned

vars == <<bids, asks, queue, market, tags, open, last, calls, pushed, popped>>

(***************************************************************************)
(* Bounds of the model.                                                    *)
(***************************************************************************)
U64Bits == 8
KeyLowBits == 6
FracBits == 2
SlabNodes == 3
BlobCapacity == 3
MaxCalls == 3
MaxQueueOps == 10
MaxEvictCalls == 4

(***************************************************************************)
(* The market's configuration (MarketState fields set by create_market).   *)
(***************************************************************************)
min_base_order_size == 1
callback_id_len == 1
tick_size == 2

\* The length of EventQueue::buffer.
Capacity == 8

U64_MAX == 2^U64Bits - 1

Min(a, b) == IF a <= b THEN a ELSE b

Sides == {"Bid", "Ask"}

opposite(side) == IF side = "Bid" THEN "Ask" ELSE "Bid"

ZeroInfo == <<0, 0>>

NoOrder == -1

(***************************************************************************)
(* FP32 arithmetic (aob/utils.rs), after its specification.                *)
(***************************************************************************)
fp32_mul(a, p) == Min((a * p) \div (2^FracBits), U64_MAX)

\* fp32_div rounding up.
fp32_div_up(a, p) ==
    IF p = 0 THEN 0 ELSE Min((a * (2^FracBits) + p - 1) \div p, U64_MAX)

fp32_div(a, p) == IF p = 0 THEN 0 ELSE Min((a * (2^FracBits)) \div p, U64_MAX)

round_price(tick, raw, side) ==
    IF side = "Bid" THEN (raw \div tick) * tick
    ELSE ((raw + tick - 1) \div tick) * tick

(***************************************************************************)
(* Order ids.                                                              *)
(***************************************************************************)
KeyLow == 2^KeyLowBits

ORDER_ID_SIDE_FLAG == 2^(KeyLowBits - 1)

BitNot(x) == (KeyLow - 1) - (x % KeyLow)

gen_order_id_no_side(q, limit_price, side) ==
    limit_price * KeyLow + ((q.seq_num + 1) % KeyLow)

gen_order_id(q, limit_price, side) ==
    LET seq_num == q.seq_num + 1
        upper == limit_price * KeyLow
        lower == IF side = "Bid" THEN BitNot(seq_num) ELSE seq_num % KeyLow
    IN  upper + lower

get_side_from_order_id(order_id) ==
    IF (order_id \div ORDER_ID_SIDE_FLAG) % 2 = 1 THEN "Bid" ELSE "Ask"

price(key) == key \div KeyLow

(***************************************************************************)
(* Events and the event queue.                                             *)
(***************************************************************************)
EventNone == [type |-> "None"]

Fill(taker_side, maker_order_id, quote_size, base_size) ==
    [type |-> "Fill", taker_side |-> taker_side, maker_order_id |-> maker_order_id,
     quote_size |-> quote_size, base_size |-> base_size,
     maker_callback_info |-> ZeroInfo, taker_callback_info |-> ZeroInfo]

Out(side, order_id, base_size, delete) ==
    [type |-> "Out", side |-> side, order_id |-> order_id, base_size |-> base_size,
     delete |-> delete, callback_info |-> ZeroInfo]

EventQueue_new ==
    [head |-> 0, count |-> 0, seq_num |-> 0,
     buffer |-> [i \in 0 .. Capacity - 1 |-> EventNone]]

full(q) == q.count = Capacity

empty(q) == q.count = 0

\* push_back as the ring's description has it: head is left alone.
push_back_keep_head(q, event) ==
    IF full(q) THEN [ok |-> FALSE, q |-> q]
    ELSE [ok |-> TRUE,
          q |-> [q EXCEPT !.buffer[(q.head + q.count) % Capacity] = event,
                          !.count = @ + 1,
                          !.seq_num = @ + 1]]

\* push_back that forgets to advance seq_num.
push_back_no_seq(q, event) ==
    IF full(q) THEN [ok |-> FALSE, q |-> q]
    ELSE [ok |-> TRUE,
          q |-> [q EXCEPT !.buffer[(q.head + q.count) % Capacity] = event,
                          !.head = @ + 1,
                          !.count = @ + 1]]

push_back(q, event) ==
    IF full(q) THEN [ok |-> FALSE, q |-> q]
    ELSE [ok |-> TRUE,
          q |-> [q EXCEPT !.buffer[(q.head + q.count) % Capacity] = event,
                          !.head = @ + 1,
                          !.count = @ + 1,
                          !.seq_num = @ + 1]]

\* pop_front: res is "none" (empty), "panic" (the index is outside the array)
\* or "some" with the value read.
pop_front(q) ==
    IF empty(q) THEN [res |-> "none", value |-> EventNone, q |-> q]
    ELSE IF q.head >= Capacity THEN [res |-> "panic", value |-> EventNone, q |-> q]
    ELSE [res |-> "some", value |-> q.buffer[q.head],
          q |-> [q EXCEPT !.count = @ - 1, !.head = (q.head + 1) % Capacity]]

(***************************************************************************)
(* The slab holding one side's tree (aob/critbit.rs, after its             *)
(* specification): an ordered mapping from order key to leaf.  A leaf is   *)
(* [key, base_quantity, callback_info, post]; post is history, the number  *)
(* of the call that posted the leaf.  A node handle is the leaf's key.     *)
(***************************************************************************)
Slab_new == [leaves |-> {}, cb_len |-> 0]

Keys(slab) == {l.key : l \in slab.leaves}

NodesUsed(slab) ==
    IF slab.leaves = {} THEN 0 ELSE 2 * Cardinality(slab.leaves) - 1

find_max(slab) ==
    IF slab.leaves = {} THEN NoOrder
    ELSE CHOOSE k \in Keys(slab) : \A k2 \in Keys(slab) : k2 <= k

find_min(slab) ==
    IF slab.leaves = {} THEN NoOrder
    ELSE CHOOSE k \in Keys(slab) : \A k2 \in Keys(slab) : k <= k2

get_node(slab, h) == CHOOSE l \in slab.leaves : l.key = h

remove_by_key(slab, key) ==
    IF key \in Keys(slab)
    THEN [found |-> TRUE, leaf |-> get_node(slab, key),
          slab |-> [slab EXCEPT !.leaves = @ \ {get_node(slab, key)}]]
    ELSE [found |-> FALSE, leaf |-> EventNone, slab |-> slab]

remove_min(slab) == remove_by_key(slab, find_min(slab))

remove_max(slab) == remove_by_key(slab, find_max(slab))

write_node(slab, leaf, h) ==
    [slab EXCEPT !.leaves = (@ \ {get_node(slab, h)}) \cup {leaf}]

\* A key already in the tree keeps its node and takes the new payload.
insert_leaf(slab, leaf) ==
    IF leaf.key \in Keys(slab)
    THEN [res |-> "ok", slab |-> write_node(slab, leaf, leaf.key)]
    ELSE IF NodesUsed(slab) + (IF slab.leaves = {} THEN 1 ELSE 2) > SlabNodes
    THEN [res |-> "SlabOutOfSpace", slab |-> slab]
    ELSE [res |-> "ok", slab |-> [slab EXCEPT !.leaves = @ \cup {leaf}]]

write_callback_info(slab, info) ==
    IF slab.cb_len >= BlobCapacity THEN [ok |-> FALSE, slab |-> slab]
    ELSE [ok |-> TRUE, slab |-> [slab EXCEPT !.cb_len = @ + 1]]

(***************************************************************************)
(* The order book: bk is [Bid |-> the bids slab, Ask |-> the asks slab].   *)
(***************************************************************************)
\* find_bbo taking the far end of the tree.
find_bbo_wrong_end(bk, side) ==
    IF side = "Bid" THEN find_min(bk["Bid"]) ELSE find_max(bk["Ask"])

find_bbo(bk, side) ==
    IF side = "Bid" THEN find_max(bk["Bid"]) ELSE find_min(bk["Ask"])

OpenEntry(leaf, side) == [post |-> leaf.post, side |-> side, price |-> price(leaf.key)]

IdPrefix(info) == SubSeq(info, 1, callback_id_len)

\* The self-trade test comparing the whole callback information.
order_would_self_trade_whole(info, maker) == info = maker.callback_info

order_would_self_trade(info, maker) == IdPrefix(info) = IdPrefix(maker.callback_info)

NoLeaf == [key |-> NoOrder]

\* history: the argument of a call that records none
NoArg == <<>>

NoSummary ==
    [posted_order_id |-> NoOrder, total_base_qty |-> 0, total_quote_qty |-> 0,
     total_base_qty_posted |-> 0]

(***************************************************************************)
(* new_order.  The matching loop runs on a record st:                      *)
(*   bk, q        the trees and the queue as mutated so far                *)
(*   base, quote  base_qty_remaining, quote_qty_remaining                  *)
(*   ml, crossed  match_limit, crossed                                     *)
(*   status       "loop", "break", or the error the call returned          *)
(*   steps, events, open   history: one record per match step (with the    *)
(*                prices resting on the maker's side before the step and   *)
(*                the earlier posts still open at the maker's price), the  *)
(*                events pushed by the call, the posts reported resting    *)
(***************************************************************************)
StepRecord(st, p, kind, maker, events, base_after, quote_after, ml_after, left) ==
    [kind |-> kind,
     self_trade_behavior |-> p.self_trade_behavior,
     taker_info |-> p.callback_info,
     side |-> opposite(p.side),
     maker |-> maker,
     prices |-> {price(l.key) : l \in st.bk[opposite(p.side)].leaves},
     earlier |-> {o.post : o \in {e \in st.open : /\ e.side = opposite(p.side)
                                                   /\ e.price = price(maker.key)
                                                   /\ e.post < maker.post}},
     events |-> events,
     base |-> st.base, base_after |-> base_after,
     quote |-> st.quote, quote_after |-> quote_after,
     ml |-> st.ml, ml_after |-> ml_after,
     left |-> left]

\* The self-trade branch charging the step to match_limit.
SelfTradeStep_counts(st, p, maker) ==
    LET opp == opposite(p.side)
        cancelled_provide_base_qty == Min(st.base, maker.base_quantity)
        remaining_provide_base_qty == maker.base_quantity - cancelled_provide_base_qty
        delete == remaining_provide_base_qty = 0
        provide_out == Out(opp, maker.key, cancelled_provide_base_qty, delete)
        pb == push_back(st.q, provide_out)
        tree == IF delete THEN remove_by_key(st.bk[opp], maker.key).slab
                ELSE write_node(st.bk[opp],
                                [maker EXCEPT !.base_quantity = remaining_provide_base_qty],
                                maker.key)
    IN  IF p.self_trade_behavior = "AbortTransaction"
        THEN [st EXCEPT !.status = "WouldSelfTrade"]
        ELSE IF ~pb.ok THEN [st EXCEPT !.status = "EventQueueFull"]
        ELSE [st EXCEPT !.q = pb.q,
                        !.bk[opp] = tree,
                        !.ml = @ - 1,
                        !.events = Append(@, provide_out),
                        !.open = IF delete THEN @ \ {OpenEntry(maker, opp)} ELSE @,
                        !.steps = Append(@, StepRecord(st, p, "cancel", maker,
                                      <<provide_out>>, st.base, st.quote, st.ml - 1,
                                      remaining_provide_base_qty))]

\* A CancelProvide step that takes nothing off the maker.
cancelled_provide_nothing(base_qty_remaining, base_quantity) == 0

\* orderbook.rs 216-220: what a CancelProvide step takes off the maker.
cancelled_provide(base_qty_remaining, base_quantity) ==
    Min(base_qty_remaining, base_quantity)

\* orderbook.rs 212-254: the best maker has the taker's callback identifier.
SelfTradeStep(st, p, maker) ==
    LET opp == opposite(p.side)
        cancelled_provide_base_qty == cancelled_provide(st.base, maker.base_quantity)
        remaining_provide_base_qty == maker.base_quantity - cancelled_provide_base_qty
        delete == remaining_provide_base_qty = 0
        provide_out == Out(opp, maker.key, cancelled_provide_base_qty, delete)
        pb == push_back(st.q, provide_out)
        tree == IF delete THEN remove_by_key(st.bk[opp], maker.key).slab
                ELSE write_node(st.bk[opp],
                                [maker EXCEPT !.base_quantity = remaining_provide_base_qty],
                                maker.key)
    IN  IF p.self_trade_behavior = "AbortTransaction"
        THEN [st EXCEPT !.status = "WouldSelfTrade"]
        ELSE IF ~pb.ok THEN [st EXCEPT !.status = "EventQueueFull"]
        ELSE [st EXCEPT !.q = pb.q,
                        !.bk[opp] = tree,
                        !.events = Append(@, provide_out),
                        !.open = IF delete THEN @ \ {OpenEntry(maker, opp)} ELSE @,
                        !.steps = Append(@, StepRecord(st, p, "cancel", maker,
                                      <<provide_out>>, st.base, st.quote, st.ml,
                                      remaining_provide_base_qty))]

\* The removal test letting a maker of exactly the minimum size rest.
maker_is_removed_strict(base_quantity) == base_quantity < min_base_order_size

\* orderbook.rs 280
maker_is_removed(base_quantity) == base_quantity <= min_base_order_size

\* orderbook.rs 257-307: the fill of the best maker.
FillStep(st, p, maker, base_trade_qty) ==
    LET opp == opposite(p.side)
        trade_price == price(maker.key)
        quote_maker_qty == fp32_mul(base_trade_qty, trade_price)
        maker_fill == Fill(p.side, maker.key, quote_maker_qty, base_trade_qty)
        pb1 == push_back(st.q, maker_fill)
        left == maker.base_quantity - base_trade_qty
        base_after == st.base - base_trade_qty
        quote_after == st.quote - quote_maker_qty
        out_event == Out(opp, maker.key, left, TRUE)
        pb2 == push_back(pb1.q, out_event)
        removed == remove_by_key(st.bk[opp], maker.key).slab
        written == write_node(st.bk[opp], [maker EXCEPT !.base_quantity = left], maker.key)
    IN  IF ~pb1.ok THEN [st EXCEPT !.status = "EventQueueFull"]
        ELSE IF maker_is_removed(left) /\ ~pb2.ok
        THEN [st EXCEPT !.q = pb1.q,
                        !.bk[opp] = removed,
                        !.base = base_after,
                        !.quote = quote_after,
                        !.events = Append(@, maker_fill),
                        !.open = @ \ {OpenEntry(maker, opp)},
                        !.steps = Append(@, StepRecord(st, p, "fill", maker,
                                      <<maker_fill>>, base_after, quote_after, st.ml, left)),
                        !.status = "EventQueueFull"]
        ELSE IF maker_is_removed(left)
        THEN [st EXCEPT !.q = pb2.q,
                        !.bk[opp] = removed,
                        !.base = base_after,
                        !.quote = quote_after,
                        !.ml = @ - 1,
                        !.events = @ \o <<maker_fill, out_event>>,
                        !.open = @ \ {OpenEntry(maker, opp)},
                        !.steps = Append(@, StepRecord(st, p, "fill", maker,
                                      <<maker_fill, out_event>>, base_after, quote_after,
                                      st.ml - 1, left))]
        ELSE [st EXCEPT !.q = pb1.q,
                        !.bk[opp] = written,
                        !.base = base_after,
                        !.quote = quote_after,
                        !.ml = @ - 1,
                        !.events = Append(@, maker_fill),
                        !.steps = Append(@, StepRecord(st, p, "fill", maker,
                                      <<maker_fill>>, base_after, quote_after,
                                      st.ml - 1, left))]

\* The crossing test that takes every price as crossing.
crosses_any(side, limit_price, trade_price) == TRUE

\* orderbook.rs 186-189
crosses(side, limit_price, trade_price) ==
    IF side = "Bid" THEN limit_price >= trade_price ELSE limit_price <= trade_price

\* The budget test that lets one more maker through.
match_limit_spent_late(match_limit) == match_limit < 0

\* orderbook.rs 166
match_limit_spent(match_limit) == match_limit = 0

\* orderbook.rs 166-307: one iteration of the matching loop.
MatchStep(st, p) ==
    IF match_limit_spent(st.ml) THEN [st EXCEPT !.status = "break"]
    ELSE
    LET best_bo_h == find_bbo(st.bk, opposite(p.side))
    IN  IF best_bo_h = NoOrder THEN [st EXCEPT !.crossed = FALSE, !.status = "break"]
        ELSE
        LET best_bo_ref == get_node(st.bk[opposite(p.side)], best_bo_h)
            trade_price == price(best_bo_ref.key)
            crossed == crosses(p.side, p.limit_price, trade_price)
            base_trade_qty == Min(Min(best_bo_ref.base_quantity, st.base),
                                  fp32_div(st.quote, trade_price))
        IN  IF p.post_only \/ ~crossed
            THEN [st EXCEPT !.crossed = crossed, !.status = "break"]
            ELSE IF base_trade_qty = 0
            THEN [st EXCEPT !.crossed = crossed, !.status = "break"]
            ELSE IF /\ p.self_trade_behavior # "DecrementTake"
                    /\ order_would_self_trade(p.callback_info, best_bo_ref)
            THEN SelfTradeStep([st EXCEPT !.crossed = crossed], p, best_bo_ref)
            ELSE FillStep([st EXCEPT !.crossed = crossed], p, best_bo_ref, base_trade_qty)

RECURSIVE MatchLoop(_, _)
MatchLoop(st, p) ==
    IF st.status # "loop" THEN st ELSE MatchLoop(MatchStep(st, p), p)

\* The posting rule that forgets that the order crossed.
post_is_refused_uncrossed(crossed, post_allowed, base_qty_to_post) ==
    ~post_allowed \/ base_qty_to_post <= min_base_order_size

\* The posting rule letting an order of exactly the minimum size rest.
post_is_refused_strict(crossed, post_allowed, base_qty_to_post) ==
    crossed \/ ~post_allowed \/ base_qty_to_post < min_base_order_size

\* orderbook.rs 315
post_is_refused(crossed, post_allowed, base_qty_to_post) ==
    crossed \/ ~post_allowed \/ base_qty_to_post <= min_base_order_size

Result(st, result, summary, posted) ==
    [bk |-> st.bk, q |-> st.q, open |-> st.open, result |-> result,
     summary |-> summary, steps |-> st.steps, events |-> st.events, posted |-> posted,
     evicted |-> NoLeaf]

\* The summary of a post that leaves the posted quote out of total_quote_qty.
PostedSummary_fills_only(st, p, new_leaf_order_id, base_qty_to_post) ==
    [posted_order_id |-> new_leaf_order_id,
     total_base_qty |-> p.max_base_qty - (st.base - base_qty_to_post),
     total_quote_qty |-> p.max_quote_qty - st.quote,
     total_base_qty_posted |-> base_qty_to_post]

\* The summary of a post that reports the whole order as posted.
PostedSummary_max_base(st, p, new_leaf_order_id, base_qty_to_post) ==
    [posted_order_id |-> new_leaf_order_id,
     total_base_qty |-> p.max_base_qty - (st.base - base_qty_to_post),
     total_quote_qty |->
         p.max_quote_qty - (st.quote - fp32_mul(base_qty_to_post, p.limit_price)),
     total_base_qty_posted |-> p.max_base_qty]

\* orderbook.rs 362-369
PostedSummary(st, p, new_leaf_order_id, base_qty_to_post) ==
    [posted_order_id |-> new_leaf_order_id,
     total_base_qty |-> p.max_base_qty - (st.base - base_qty_to_post),
     total_quote_qty |->
         p.max_quote_qty - (st.quote - fp32_mul(base_qty_to_post, p.limit_price)),
     total_base_qty_posted |-> base_qty_to_post]

\* Booting out the most aggressive order of the side.
boot_out_best(slab, side) ==
    IF side = "Bid" THEN remove_max(slab) ELSE remove_min(slab)

\* orderbook.rs 338-341: the least aggressive order of the side is booted out.
boot_out(slab, side) ==
    IF side = "Bid" THEN remove_min(slab) ELSE remove_max(slab)

\* orderbook.rs 310-369: the residual is posted, or not.
PostOrder(st, p, callno) ==
    LET base_qty_to_post == Min(fp32_div(st.quote, p.limit_price), st.base)
        new_leaf_order_id == gen_order_id(st.q, p.limit_price, p.side)
        callback_info_offset == write_callback_info(st.bk[p.side], p.callback_info)
        new_leaf == [key |-> new_leaf_order_id,
                     base_quantity |-> base_qty_to_post,
                     callback_info |-> p.callback_info,
                     post |-> callno]
        insert_result == insert_leaf(callback_info_offset.slab, new_leaf)
        order == boot_out(callback_info_offset.slab, p.side)
        out == Out("Bid", order.leaf.key, order.leaf.base_quantity, TRUE)
        pb == push_back(st.q, out)
        retry == insert_leaf(order.slab, new_leaf)
        summary == PostedSummary(st, p, new_leaf_order_id, base_qty_to_post)
    IN  IF post_is_refused(st.crossed, p.post_allowed, base_qty_to_post)
        THEN Result(st, "ok",
                    [posted_order_id |-> NoOrder,
                     total_base_qty |-> p.max_base_qty - st.base,
                     total_quote_qty |-> p.max_quote_qty - st.quote,
                     total_base_qty_posted |-> 0],
                    NoLeaf)
        ELSE IF ~callback_info_offset.ok
        THEN Result(st, "panic", NoSummary, NoLeaf)
        ELSE IF insert_result.res = "ok"
        THEN Result([st EXCEPT !.bk[p.side] = insert_result.slab,
                               !.open = @ \cup {OpenEntry(new_leaf, p.side)}],
                    "ok", summary, new_leaf)
        ELSE IF ~order.found
        THEN Result([st EXCEPT !.bk[p.side] = callback_info_offset.slab],
                    "panic", NoSummary, NoLeaf)
        ELSE IF ~pb.ok
        THEN [Result([st EXCEPT !.bk[p.side] = order.slab,
                                !.open = @ \ {OpenEntry(order.leaf, p.side)}],
                     "EventQueueFull", NoSummary, NoLeaf)
                 EXCEPT !.evicted = order.leaf]
        ELSE IF retry.res # "ok"
        THEN [Result([st EXCEPT !.bk[p.side] = order.slab,
                                !.q = pb.q,
                                !.events = Append(@, out),
                                !.open = @ \ {OpenEntry(order.leaf, p.side)}],
                     "panic", NoSummary, NoLeaf)
                 EXCEPT !.evicted = order.leaf]
        ELSE [Result([st EXCEPT !.bk[p.side] = retry.slab,
                                !.q = pb.q,
                                !.events = Append(@, out),
                                !.open = (@ \ {OpenEntry(order.leaf, p.side)})
                                         \cup {OpenEntry(new_leaf, p.side)}],
                     "ok", summary, new_leaf)
                 EXCEPT !.evicted = order.leaf]

\* orderbook.rs 141-370
new_order(bk, q, op, p, callno) ==
    LET st == MatchLoop([bk |-> bk, q |-> q, open |-> op,
                         base |-> p.max_base_qty, quote |-> p.max_quote_qty,
                         ml |-> p.match_limit, crossed |-> TRUE,
                         status |-> "loop", steps |-> <<>>, events |-> <<>>], p)
    IN  IF st.status = "break" THEN PostOrder(st, p, callno)
        ELSE Result(st, st.status, NoSummary, NoLeaf)

\* pop_n: pop_front repeated at most n times.
RECURSIVE pop_n(_, _)
pop_n(q, n) ==
    IF n = 0 THEN [res |-> "ok", q |-> q, values |-> <<>>]
    ELSE LET r == pop_front(q)
         IN  IF r.res = "none" THEN [res |-> "ok", q |-> q, values |-> <<>>]
             ELSE IF r.res = "panic" THEN [res |-> "panic", q |-> q, values |-> <<>>]
             ELSE LET rest == pop_n(r.q, n - 1)
                  IN  [res |-> rest.res, q |-> rest.q, values |-> <<r.value>> \o rest.values]

(***************************************************************************)
(* The state after create_market, and the calls.                           *)
(***************************************************************************)
\* The tags create_market leaves on the three buffers of a market.
CreatedTags == [event_queue |-> "EventQueue", bids |-> "Bids", asks |-> "Asks"]

Init ==
    /\ bids = Slab_new
    /\ asks = Slab_new
    /\ queue = EventQueue_new
    /\ market = [tag |-> "Market", caller_authority |-> "authority", fee_budget |-> 0]
    /\ tags = CreatedTags
    /\ open = {}
    /\ last = [op |-> "init", arg |-> NoArg, authority |-> "authority", result |-> "ok",
               summary |-> NoSummary,
               steps |-> <<>>, events |-> <<>>, posted |-> NoLeaf, evicted |-> NoLeaf]
    /\ calls = 0
    /\ pushed = <<>>
    /\ popped = <<>>

Behaviors == {"DecrementTake", "CancelProvide", "AbortTransaction"}

\* The order types drawn: post-only orders, orders with no match budget, and
\* limit (post_allowed) or immediate (not post_allowed) orders under each
\* self-trade behaviour with a budget of one or two makers.
OrderTypes ==
    [post_only : {TRUE}, post_allowed : {TRUE},
     self_trade_behavior : {"DecrementTake"}, match_limit : {1}]
    \cup [post_only : {FALSE}, post_allowed : {TRUE},
          self_trade_behavior : {"DecrementTake"}, match_limit : {0}]
    \cup [post_only : {FALSE}, post_allowed : BOOLEAN,
          self_trade_behavior : Behaviors, match_limit : 1 .. 2]

Inputs ==
    [prices |-> {4, 6}, bases |-> {1, 2, 4}, quotes |-> {2, U64_MAX},
     infos |-> {<<1, 1>>, <<1, 2>>, <<2, 1>>}, types |-> OrderTypes,
     history |-> FALSE,
     signers |-> {"authority"}]

\* lib.rs 152-163: the lamports the market holds above initial_lamports must
\* cover the fee budget and one more cranker reward (checked_add panics past
\* u64); they become the fee budget.
settle_fees(m, surplus, cranker_reward) ==
    IF m.fee_budget + cranker_reward > U64_MAX THEN [result |-> "panic", market |-> m]
    ELSE IF surplus < m.fee_budget + cranker_reward
    THEN [result |-> "FeeNotPayed", market |-> m]
    ELSE [result |-> "ok", market |-> [m EXCEPT !.fee_budget = surplus]]

\* lib.rs 72-167: the new_order entry point, on inputs drawn from D, signed by an
\* authority the handler does not look at, on a market whose lamports above
\* initial_lamports are drawn from surpluses.  An order whose fees were not
\* paid is undone whole.  The call's parameters are kept in the history when
\* D.history says so.
NewOrderPaid(D, surpluses, cranker_reward) ==
    \E side \in Sides, raw_price \in D.prices, max_base_qty \in D.bases,
       max_quote_qty \in D.quotes, callback_info \in D.infos, type \in D.types,
       authority \in D.signers, surplus \in surpluses :
        LET p == [max_base_qty |-> max_base_qty,
                  max_quote_qty |-> max_quote_qty,
                  side |-> side,
                  limit_price |-> round_price(tick_size, raw_price, side),
                  callback_info |-> callback_info,
                  post_only |-> type.post_only,
                  post_allowed |-> type.post_allowed,
                  self_trade_behavior |-> type.self_trade_behavior,
                  match_limit |-> type.match_limit]
        IN  \E r \in {new_order([Bid |-> bids, Ask |-> asks], queue, open, p, calls + 1)} :
            \E f \in {settle_fees(market, surplus, cranker_reward)} :
                IF r.result = "ok" /\ f.result # "ok"
                THEN /\ last' = [op |-> "new_order",
                                 arg |-> IF D.history THEN p ELSE NoArg,
                                 authority |-> authority, result |-> f.result,
                                 summary |-> NoSummary, steps |-> <<>>,
                                 events |-> <<>>, posted |-> NoLeaf,
                                 evicted |-> NoLeaf]
                     /\ calls' = calls + 1
                     /\ UNCHANGED <<bids, asks, queue, open, market, tags, pushed, popped>>
                ELSE /\ bids' = r.bk["Bid"]
                     /\ asks' = r.bk["Ask"]
                     /\ queue' = r.q
                     /\ open' = r.open
                     /\ market' = IF r.result = "ok" THEN f.market ELSE market
                     /\ last' = [op |-> "new_order",
                                 arg |-> IF D.history THEN p ELSE NoArg,
                                 authority |-> authority, result |-> r.result,
                                 summary |-> r.summary, steps |-> r.steps,
                                 events |-> r.events, posted |-> r.posted,
                                 evicted |-> r.evicted]
                     /\ calls' = calls + 1
                     /\ UNCHANGED <<tags, pushed, popped>>

\* new_order on a market that charges no cranker reward and holds no lamports
\* above initial_lamports: its fee budget stays 0.
NewOrderCall(D) == NewOrderPaid(D, {0}, 0)

NewOrder == calls < MaxCalls /\ NewOrderCall(Inputs)

CancelProbes == {4 * KeyLow + 1, 6 * KeyLow + (KeyLow - 2)}

\* cancel_order that reports success when the order is not there.
cancel_order_swallows(bk, order_id) ==
    LET side == get_side_from_order_id(order_id)
        node == remove_by_key(bk[side], order_id)
    IN  IF ~node.found
        THEN [result |-> "ok", bk |-> bk, leaf |-> NoLeaf, summary |-> NoSummary]
        ELSE [result |-> "ok", bk |-> [bk EXCEPT ![side] = node.slab], leaf |-> node.leaf,
              summary |-> [posted_order_id |-> NoOrder,
                           total_base_qty |-> node.leaf.base_quantity,
                           total_quote_qty |-> fp32_mul(node.leaf.base_quantity,
                                                        price(node.leaf.key)),
                           total_base_qty_posted |-> 0]]

\* cancel_order that reports the order's quantity as still posted.
cancel_order_posted(bk, order_id) ==
    LET side == get_side_from_order_id(order_id)
        node == remove_by_key(bk[side], order_id)
    IN  IF ~node.found
        THEN [result |-> "OrderNotFound", bk |-> bk, leaf |-> NoLeaf,
              summary |-> NoSummary]
        ELSE [result |-> "ok", bk |-> [bk EXCEPT ![side] = node.slab], leaf |-> node.leaf,
              summary |-> [posted_order_id |-> NoOrder,
                           total_base_qty |-> node.leaf.base_quantity,
                           total_quote_qty |-> fp32_mul(node.leaf.base_quantity,
                                                        price(node.leaf.key)),
                           total_base_qty_posted |-> node.leaf.base_quantity]]

\* lib.rs 169-207: the tree is chosen by the id's side flag, the leaf removed
\* and the summary built from it.
cancel_order(bk, order_id) ==
    LET side == get_side_from_order_id(order_id)
        node == remove_by_key(bk[side], order_id)
    IN  IF ~node.found
        THEN [result |-> "OrderNotFound", bk |-> bk, leaf |-> NoLeaf,
              summary |-> NoSummary]
        ELSE [result |-> "ok", bk |-> [bk EXCEPT ![side] = node.slab], leaf |-> node.leaf,
              summary |-> [posted_order_id |-> NoOrder,
                           total_base_qty |-> node.leaf.base_quantity,
                           total_quote_qty |-> fp32_mul(node.leaf.base_quantity,
                                                        price(node.leaf.key)),
                           total_base_qty_posted |-> 0]]

\* lib.rs 169-207, signed by an authority the handler does not look at
CancelOrderCall(signers) ==
    /\ calls < MaxCalls
    /\ \E order_id \in Keys(bids) \cup Keys(asks) \cup CancelProbes, authority \in signers :
        \E r \in {cancel_order([Bid |-> bids, Ask |-> asks], order_id)} :
            /\ bids' = r.bk["Bid"]
            /\ asks' = r.bk["Ask"]
            /\ open' = IF r.leaf = NoLeaf THEN open
                       ELSE open \ {OpenEntry(r.leaf, get_side_from_order_id(order_id))}
            /\ last' = [op |-> "cancel_order", arg |-> order_id,
                        authority |-> authority, result |-> r.result,
                        summary |-> r.summary, steps |-> <<>>, events |-> <<>>,
                        posted |-> NoLeaf, evicted |-> NoLeaf]
    /\ calls' = calls + 1
    /\ UNCHANGED <<queue, market, tags, pushed, popped>>

CancelOrder == CancelOrderCall({"authority"})

\* lib.rs 229-250: the reward is the product divided by the queue's count
\* (checked_div of an empty queue's count unwraps to a panic); it leaves the
\* fee budget, then the events are popped.
pay_and_pop(q, m, n, product) ==
    IF q.count = 0 THEN [res |-> "panic", q |-> q, market |-> m, values |-> <<>>]
    ELSE LET reward == product \div q.count
             r == pop_n(q, n)
         IN  IF r.res = "panic"
             THEN [res |-> "panic", q |-> q, market |-> m, values |-> <<>>]
             ELSE [res |-> r.res, q |-> r.q,
                   market |-> [m EXCEPT !.fee_budget = m.fee_budget - reward],
                   values |-> r.values]

\* lib.rs 209-250: the outcomes of consume_events.  The u64 product
\* fee_budget * min(count, n) is not checked: past u64 it panics in a build
\* with overflow checks and wraps in a build without.
consume_events(q, m, n) ==
    LET capped_number_of_entries_consumed == Min(q.count, n)
        product == m.fee_budget * capped_number_of_entries_consumed
    IN  IF product > U64_MAX
        THEN {[res |-> "panic", q |-> q, market |-> m, values |-> <<>>],
              pay_and_pop(q, m, n, product % 2^U64Bits)}
        ELSE {pay_and_pop(q, m, n, product)}

\* lib.rs 209-250, signed by an authority the handler does not look at
ConsumeEventsCall(signers) ==
    /\ calls < MaxCalls
    /\ \E number_of_entries_to_consume \in 0 .. 2, authority \in signers :
        \E r \in consume_events(queue, market, number_of_entries_to_consume) :
            /\ queue' = r.q
            /\ market' = r.market
            /\ last' = [op |-> "consume_events", arg |-> number_of_entries_to_consume,
                        authority |-> authority, result |-> r.res,
                        summary |-> NoSummary, steps |-> <<>>, events |-> r.values,
                        posted |-> NoLeaf, evicted |-> NoLeaf]
    /\ calls' = calls + 1
    /\ UNCHANGED <<bids, asks, tags, open, pushed, popped>>

ConsumeEvents == ConsumeEventsCall({"authority"})

\* is_empty that looks at the asks only.
is_empty_asks_only(bk) == bk["Ask"].leaves = {}

\* orderbook.rs 372-374: neither tree has a root.
is_empty(bk) == bk["Ask"].leaves = {} /\ bk["Bid"].leaves = {}

\* close_market that does not look at the event queue.
close_market_ignores_queue(bk, q, m) ==
    IF ~is_empty(bk) THEN [result |-> "MarketStillActive", market |-> m]
    ELSE [result |-> "ok", market |-> [m EXCEPT !.tag = "Uninitialized"]]

\* lib.rs 252-303 (the lamports it moves are not modelled)
close_market(bk, q, m) ==
    IF ~is_empty(bk) THEN [result |-> "MarketStillActive", market |-> m]
    ELSE IF q.count # 0 THEN [result |-> "MarketStillActive", market |-> m]
    ELSE [result |-> "ok", market |-> [m EXCEPT !.tag = "Uninitialized"]]

\* lib.rs 252-303, signed by an authority the handler does not look at
CloseMarketCall(signers) ==
    /\ calls < MaxCalls
    /\ \E authority \in signers :
       \E r \in {close_market([Bid |-> bids, Ask |-> asks], queue, market)} :
        /\ market' = r.market
        /\ last' = [op |-> "close_market", arg |-> NoArg,
                    authority |-> authority, result |-> r.result,
                    summary |-> NoSummary, steps |-> <<>>, events |-> <<>>,
                    posted |-> NoLeaf, evicted |-> NoLeaf]
    /\ calls' = calls + 1
    /\ UNCHANGED <<bids, asks, queue, open, pushed, popped, tags>>

CloseMarket == CloseMarketCall({"authority"})

Next == NewOrder \/ CancelOrder \/ ConsumeEvents \/ CloseMarket

Spec == Init /\ [][Next]_vars

(***************************************************************************)
(* The specification in which the queue fills up: orders large enough for  *)
(* one call to push more events than the queue holds.                      *)
(***************************************************************************)
FullInputs ==
    [prices |-> {4}, bases |-> {1, Capacity + 1}, quotes |-> {U64_MAX},
     infos |-> {<<1, 1>>, <<2, 1>>}, types |-> OrderTypes, history |-> FALSE,
     signers |-> {"authority"}]

NewOrderFull == calls < MaxCalls /\ NewOrderCall(FullInputs)

NextFull == NewOrderFull \/ CancelOrder \/ ConsumeEvents

SpecFull == Init /\ [][NextFull]_vars

(***************************************************************************)
(* The event queue on its own: any interleaving of push_back and pop_front.*)
(***************************************************************************)
QueueEvents == {Fill("Bid", 4 * KeyLow + 1, 2, 2), Out("Ask", 4 * KeyLow + 1, 0, TRUE)}

QueueOp(op, result, events) ==
    [op |-> op, arg |-> NoArg, authority |-> "authority", result |-> result,
     summary |-> NoSummary, steps |-> <<>>,
     events |-> events, posted |-> NoLeaf, evicted |-> NoLeaf]

\* state.rs 218-229
PushBack ==
    /\ calls < MaxQueueOps
    /\ \E event \in QueueEvents :
        \E r \in {push_back(queue, event)} :
            /\ queue' = r.q
            /\ pushed' = IF r.ok THEN Append(pushed, event) ELSE pushed
            /\ last' = QueueOp("push_back", IF r.ok THEN "ok" ELSE "EventQueueFull",
                               <<event>>)
    /\ calls' = calls + 1
    /\ UNCHANGED <<bids, asks, market, tags, open, popped>>

\* state.rs 232-240
PopFront ==
    /\ calls < MaxQueueOps
    /\ \E r \in {pop_front(queue)} :
        /\ queue' = r.q
        /\ popped' = IF r.res = "some" THEN Append(popped, r.value) ELSE popped
        /\ last' = QueueOp("pop_front", r.res, <<r.value>>)
    /\ calls' = calls + 1
    /\ UNCHANGED <<bids, asks, market, tags, open, pushed>>

NextQueue == PushBack \/ PopFront

SpecQueue == Init /\ [][NextQueue]_vars

(***************************************************************************)
(* The specification in which a tree runs out of nodes: orders at four     *)
(* prices, so that three orders with different keys can be posted on one   *)
(* side while a fourth rests on the other.  The parameters of each         *)
(* new_order are kept in the history.                                      *)
(***************************************************************************)
EvictTypes ==
    [post_only : {TRUE}, post_allowed : {TRUE},
     self_trade_behavior : {"DecrementTake"}, match_limit : {1}]
    \cup [post_only : {FALSE}, post_allowed : {TRUE},
          self_trade_behavior : {"DecrementTake"}, match_limit : {2}]

EvictInputs ==
    [prices |-> {2, 4, 6, 8}, bases |-> {2, 4}, quotes |-> {U64_MAX},
     infos |-> {<<1, 1>>}, types |-> EvictTypes, history |-> TRUE,
     signers |-> {"authority"}]

NewOrderEvict == calls < MaxEvictCalls /\ NewOrderCall(EvictInputs)

NextEvict == NewOrderEvict \/ CancelOrder \/ ConsumeEvents

SpecEvict == Init /\ [][NextEvict]_vars

(***************************************************************************)
(* The specification of post-only orders: every combination of post_only,  *)
(* post_allowed and a match budget of none or one, with and without a      *)
(* resting order to cross.  The parameters of each new_order are kept in   *)
(* the history.                                                            *)
(***************************************************************************)
PostOnlyTypes ==
    [post_only : BOOLEAN, post_allowed : BOOLEAN,
     self_trade_behavior : {"DecrementTake"}, match_limit : 0 .. 1]

PostOnlyInputs ==
    [prices |-> {4, 6}, bases |-> {1, 4}, quotes |-> {2, U64_MAX},
     infos |-> {<<1, 1>>}, types |-> PostOnlyTypes, history |-> TRUE,
     signers |-> {"authority"}]

NewOrderPostOnly == calls < MaxCalls /\ NewOrderCall(PostOnlyInputs)

NextPostOnly == NewOrderPostOnly \/ CancelOrder \/ ConsumeEvents

SpecPostOnly == Init /\ [][NextPostOnly]_vars

(***************************************************************************)
(* The specification of matching: orders of no, small and large size, with *)
(* a small and a large quote budget, a match budget of none, one or two    *)
(* makers, postable or not, from two callers under CancelProvide, so that  *)
(* a maker of the other caller is filled and a maker of the same caller is *)
(* cancelled.  The parameters of each new_order are kept in the history.   *)
(***************************************************************************)
MatchTypes ==
    [post_only : {FALSE}, post_allowed : BOOLEAN,
     self_trade_behavior : {"CancelProvide"}, match_limit : 0 .. 2]

MatchInputs ==
    [prices |-> {4, 6}, bases |-> {0, 2, 4}, quotes |-> {2, U64_MAX},
     infos |-> {<<1, 1>>, <<2, 1>>}, types |-> MatchTypes, history |-> TRUE,
     signers |-> {"authority"}]

NewOrderMatch == calls < MaxCalls /\ NewOrderCall(MatchInputs)

NextMatch == NewOrderMatch \/ CancelOrder \/ ConsumeEvents

SpecMatch == Init /\ [][NextMatch]_vars

(***************************************************************************)
(* The specification of signed calls: each entry point is called by the    *)
(* market's caller authority and by a stranger.  new_order is reached      *)
(* through the anchor program's handler and through the native program's   *)
(* processor.                                                              *)
(***************************************************************************)
Signers == {"authority", "stranger"}

\* processor/new_order.rs 155-174: the authority is the market's caller_authority
\* (the keys of the three buffers are those of the market in every call made).
check_accounts(authority, m) ==
    IF authority # m.caller_authority THEN "WrongCallerAuthority" ELSE "ok"

\* processor/new_order.rs 77-153: MarketState::get refuses a market whose tag is
\* not Market, check_accounts a stranger, and the order goes to the order book.
process(bk, q, op, m, authority, p, callno) ==
    LET refused(result) ==
            [bk |-> bk, q |-> q, open |-> op, result |-> result, summary |-> NoSummary,
             steps |-> <<>>, events |-> <<>>, posted |-> NoLeaf, evicted |-> NoLeaf]
    IN  IF m.tag # "Market" THEN refused("InvalidAccountData")
        ELSE IF check_accounts(authority, m) # "ok" THEN refused(check_accounts(authority, m))
        ELSE new_order(bk, q, op, p, callno)

AuthTypes ==
    [post_only : {FALSE}, post_allowed : {TRUE},
     self_trade_behavior : {"DecrementTake"}, match_limit : {1}]

AuthInputs ==
    [prices |-> {4, 6}, bases |-> {2, 4}, quotes |-> {U64_MAX},
     infos |-> {<<1, 1>>}, types |-> AuthTypes, history |-> TRUE,
     signers |-> Signers]

\* processor/new_order.rs 77-153: the native program's new_order instruction.
Process ==
    /\ calls < MaxCalls
    /\ \E side \in Sides, raw_price \in AuthInputs.prices, max_base_qty \in AuthInputs.bases,
          max_quote_qty \in AuthInputs.quotes, callback_info \in AuthInputs.infos,
          type \in AuthInputs.types, authority \in AuthInputs.signers :
        LET p == [max_base_qty |-> max_base_qty,
                  max_quote_qty |-> max_quote_qty,
                  side |-> side,
                  limit_price |-> round_price(tick_size, raw_price, side),
                  callback_info |-> callback_info,
                  post_only |-> type.post_only,
                  post_allowed |-> type.post_allowed,
                  self_trade_behavior |-> type.self_trade_behavior,
                  match_limit |-> type.match_limit]
        IN  \E r \in {process([Bid |-> bids, Ask |-> asks], queue, open, market,
                              authority, p, calls + 1)} :
                /\ bids' = r.bk["Bid"]
                /\ asks' = r.bk["Ask"]
                /\ queue' = r.q
                /\ open' = r.open
                /\ last' = [op |-> "process", arg |-> p, authority |-> authority,
                            result |-> r.result,
                            summary |-> r.summary, steps |-> r.steps,
                            events |-> r.events, posted |-> r.posted,
                            evicted |-> r.evicted]
    /\ calls' = calls + 1
    /\ UNCHANGED <<market, tags, pushed, popped>>

NewOrderAuth == calls < MaxCalls /\ NewOrderCall(AuthInputs)

NextAuth ==
    \/ Process
    \/ NewOrderAuth
    \/ CancelOrderCall(Signers)
    \/ ConsumeEventsCall(Signers)
    \/ CloseMarketCall(Signers)

SpecAuth == Init /\ [][NextAuth]_vars

(***************************************************************************)
(* Order ids on their own: gen_order_id applied to a queue with any        *)
(* sequence number, for either side and a range of prices.                 *)
(***************************************************************************)
IdPrices == {0, 1, 4, 6, U64_MAX}

InitId ==
    /\ bids = Slab_new
    /\ asks = Slab_new
    /\ queue \in {[EventQueue_new EXCEPT !.seq_num = n] : n \in 0 .. KeyLow - 2}
    /\ market = [tag |-> "Market", caller_authority |-> "authority", fee_budget |-> 0]
    /\ tags = CreatedTags
    /\ open = {}
    /\ last = [op |-> "init", arg |-> NoArg, authority |-> "authority", result |-> "ok",
               summary |-> NoSummary,
               steps |-> <<>>, events |-> <<>>, posted |-> NoLeaf, evicted |-> NoLeaf]
    /\ calls = 0
    /\ pushed = <<>>
    /\ popped = <<>>

\* state.rs 242-250: the id is composed and nothing is stored.
GenOrderId ==
    /\ calls < MaxCalls
    /\ \E limit_price \in IdPrices, side \in Sides :
        last' = [op |-> "gen_order_id",
                 arg |-> [limit_price |-> limit_price, side |-> side],
                 authority |-> "authority", result |-> "ok",
                 summary |-> [NoSummary EXCEPT
                                !.posted_order_id = gen_order_id(queue, limit_price, side)],
                 steps |-> <<>>, events |-> <<>>, posted |-> NoLeaf, evicted |-> NoLeaf]
    /\ calls' = calls + 1
    /\ UNCHANGED <<bids, asks, queue, market, tags, open, pushed, popped>>

NextId == GenOrderId

SpecId == InitId /\ [][NextId]_vars

(***************************************************************************)
(* The specification of create_market: the native program's processor is   *)
(* handed four buffers, each fresh or already initialized, and a market    *)
(* that was created is then traded on and closed.                          *)
(***************************************************************************)
\* check_unitialized (aob/utils.rs), after its specification: a buffer whose tag
\* is not Uninitialized is refused.
check_unitialized(tag) == IF tag = "Uninitialized" THEN "ok" ELSE "AlreadyInitialized"

\* create_market that looks at the market buffer only.
create_market_market_only(m, tg, bk, q, caller_authority) ==
    IF check_unitialized(m.tag) # "ok"
    THEN [result |-> "AlreadyInitialized", market |-> m, tags |-> tg, bk |-> bk, q |-> q]
    ELSE [result |-> "ok",
          market |-> [tag |-> "Market", caller_authority |-> caller_authority,
                      fee_budget |-> 0],
          tags |-> CreatedTags,
          bk |-> [Bid |-> Slab_new, Ask |-> Slab_new],
          q |-> EventQueue_new]

\* processor/create_market.rs 64-115: the event queue, the bids, the asks and the
\* market are checked in that order, then the market record, the queue header
\* and the two slabs are written (the buffers handed in are large enough).
create_market(m, tg, bk, q, caller_authority) ==
    IF check_unitialized(tg.event_queue) # "ok"
    THEN [result |-> "AlreadyInitialized", market |-> m, tags |-> tg, bk |-> bk, q |-> q]
    ELSE IF check_unitialized(tg.bids) # "ok"
    THEN [result |-> "AlreadyInitialized", market |-> m, tags |-> tg, bk |-> bk, q |-> q]
    ELSE IF check_unitialized(tg.asks) # "ok"
    THEN [result |-> "AlreadyInitialized", market |-> m, tags |-> tg, bk |-> bk, q |-> q]
    ELSE IF check_unitialized(m.tag) # "ok"
    THEN [result |-> "AlreadyInitialized", market |-> m, tags |-> tg, bk |-> bk, q |-> q]
    ELSE [result |-> "ok",
          market |-> [tag |-> "Market", caller_authority |-> caller_authority,
                      fee_budget |-> 0],
          tags |-> CreatedTags,
          bk |-> [Bid |-> Slab_new, Ask |-> Slab_new],
          q |-> EventQueue_new]

\* Four buffers, each fresh or initialized (and then empty).
InitCreate ==
    /\ bids = Slab_new
    /\ asks = Slab_new
    /\ queue = EventQueue_new
    /\ market \in [tag : {"Uninitialized", "Market"}, caller_authority : {"authority"},
                   fee_budget : {0}]
    /\ tags \in [event_queue : {"Uninitialized", "EventQueue"},
                 bids : {"Uninitialized", "Bids"},
                 asks : {"Uninitialized", "Asks"}]
    /\ open = {}
    /\ last = [op |-> "init", arg |-> NoArg, authority |-> "authority", result |-> "ok",
               summary |-> NoSummary,
               steps |-> <<>>, events |-> <<>>, posted |-> NoLeaf, evicted |-> NoLeaf]
    /\ calls = 0
    /\ pushed = <<>>
    /\ popped = <<>>

\* processor/create_market.rs 64-115
CreateMarket ==
    /\ calls < MaxCalls
    /\ \E caller_authority \in Signers :
        \E r \in {create_market(market, tags, [Bid |-> bids, Ask |-> asks], queue,
                                caller_authority)} :
            /\ market' = r.market
            /\ tags' = r.tags
            /\ bids' = r.bk["Bid"]
            /\ asks' = r.bk["Ask"]
            /\ queue' = r.q
            /\ open' = IF r.result = "ok" THEN {} ELSE open
            /\ last' = [op |-> "create_market", arg |-> caller_authority,
                        authority |-> "authority", result |-> r.result,
                        summary |-> NoSummary, steps |-> <<>>, events |-> <<>>,
                        posted |-> NoLeaf, evicted |-> NoLeaf]
    /\ calls' = calls + 1
    /\ UNCHANGED <<pushed, popped>>

\* The four buffers are those of a market that was created and not closed.
Created == market.tag = "Market" /\ tags = CreatedTags

CreateInputs ==
    [prices |-> {4, 6}, bases |-> {2, 4}, quotes |-> {U64_MAX},
     infos |-> {<<1, 1>>}, types |-> AuthTypes, history |-> FALSE,
     signers |-> {"authority"}]

NewOrderCreate == Created /\ calls < MaxCalls /\ NewOrderCall(CreateInputs)

NextCreate ==
    \/ CreateMarket
    \/ NewOrderCreate
    \/ Created /\ CancelOrder
    \/ Created /\ ConsumeEvents
    \/ Created /\ CloseMarket

SpecCreate == InitCreate /\ [][NextCreate]_vars

(***************************************************************************)
(* The fee budget: orders on a market that charges a cranker reward, paid   *)
(* by callers who leave any amount of lamports on the market, and the       *)
(* payout of consume_events.                                                *)
(***************************************************************************)
FeeReward == 1

\* What the market may hold above initial_lamports when an order ends.
Surpluses == {1, 2, 3, 5, 2^(U64Bits - 1), U64_MAX}

FeeTypes ==
    [post_only : {FALSE}, post_allowed : {TRUE},
     self_trade_behavior : {"DecrementTake"}, match_limit : {1}]

FeeInputs ==
    [prices |-> {4, 6}, bases |-> {2}, quotes |-> {U64_MAX},
     infos |-> {<<1, 1>>, <<2, 1>>}, types |-> FeeTypes,
     history |-> FALSE,
     signers |-> {"authority"}]

NewOrderFee == calls < MaxCalls /\ NewOrderPaid(FeeInputs, Surpluses, FeeReward)

NextFee == NewOrderFee \/ ConsumeEvents

SpecFee == Init /\ [][NextFee]_vars

(***************************************************************************)
(* The slab's node array (aob/critbit.rs, after its specification): slots  *)
(* 0 .. SlabSlots - 1 holding Inner, Leaf and Free nodes, a free list      *)
(* threaded through the Free nodes, and bump_index, the first slot never   *)
(* allocated.  The slab under test is kept in the variable bids; open is   *)
(* history, the keys inserted and not removed since.                       *)
(***************************************************************************)
SlabSlots == 6
SlabKeyBits == 3
NoHandle == -1

SlabKeys == 0 .. 2^SlabKeyBits - 1

Unused == [tag |-> "Uninitialized"]

NodeArray_new ==
    [nodes |-> [h \in 0 .. SlabSlots - 1 |-> Unused],
     root_handle |-> NoHandle, leaf_count |-> 0,
     free_list_head |-> NoHandle, bump_index |-> 0]

\* alloc_node: the free-list head if there is one, else the slot at bump_index.
alloc_node(s, node) ==
    IF s.free_list_head # NoHandle
    THEN [ok |-> TRUE, h |-> s.free_list_head,
          s |-> [s EXCEPT !.nodes[s.free_list_head] = node,
                          !.free_list_head = s.nodes[s.free_list_head].next]]
    ELSE IF s.bump_index < SlabSlots
    THEN [ok |-> TRUE, h |-> s.bump_index,
          s |-> [s EXCEPT !.nodes[s.bump_index] = node, !.bump_index = @ + 1]]
    ELSE [ok |-> FALSE, h |-> NoHandle, s |-> s]

\* free_node: h becomes the head of the free list.
free_node(s, h) ==
    [s EXCEPT !.nodes[h] = [tag |-> "Free", next |-> s.free_list_head],
              !.free_list_head = h]

\* A failed insert that keeps the slot it took.
release_leaks(s, h) == s

\* The slot a failing insert_leaf had taken for the leaf goes back.
release(s, h) == free_node(s, h)

crit_bit(key, shift) == (key \div 2^shift) % 2

\* The highest bit in which two different keys differ.
diff_bit(a, b) ==
    CHOOSE i \in 0 .. SlabKeyBits - 1 :
        /\ crit_bit(a, i) # crit_bit(b, i)
        /\ \A j \in i + 1 .. SlabKeyBits - 1 : crit_bit(a, j) = crit_bit(b, j)

child(s, h, key) == s.nodes[h].children[crit_bit(key, s.nodes[h].shift) + 1]

\* The leaf reached from h by following key's bits.
RECURSIVE descend(_, _, _)
descend(s, h, key) ==
    IF s.nodes[h].tag = "Leaf" THEN h ELSE descend(s, child(s, h, key), key)

\* The place of a new Inner with critical bit d: below parent, in front of h,
\* the first node on key's path that is a Leaf or an Inner with a lower bit.
RECURSIVE position(_, _, _, _, _)
position(s, parent, h, key, d) ==
    IF s.nodes[h].tag = "Inner" /\ s.nodes[h].shift > d
    THEN position(s, h, child(s, h, key), key, d)
    ELSE [parent |-> parent, h |-> h]

\* The handle new takes the place of old below parent (or at the root).
relink(s, parent, old, new) ==
    IF parent = NoHandle THEN [s EXCEPT !.root_handle = new]
    ELSE [s EXCEPT !.nodes[parent].children =
                       [i \in 1 .. 2 |-> IF @[i] = old THEN new ELSE @[i]]]

\* insert_leaf on the node array: a new leaf takes one slot in an empty tree,
\* and one slot plus one for the new Inner otherwise; when the second slot is
\* not to be had the first is freed again.  A key already there keeps its slot.
slots_insert_leaf(s, key) ==
    IF s.root_handle = NoHandle
    THEN LET a == alloc_node(s, [tag |-> "Leaf", key |-> key])
         IN  IF ~a.ok THEN [res |-> "SlabOutOfSpace", s |-> s]
             ELSE [res |-> "ok",
                   s |-> [a.s EXCEPT !.root_handle = a.h, !.leaf_count = @ + 1]]
    ELSE LET existing == descend(s, s.root_handle, key)
         IN  IF s.nodes[existing].key = key THEN [res |-> "ok", s |-> s]
             ELSE LET d == diff_bit(key, s.nodes[existing].key)
                      pos == position(s, NoHandle, s.root_handle, key, d)
                      a == alloc_node(s, [tag |-> "Leaf", key |-> key])
                  IN  IF ~a.ok THEN [res |-> "SlabOutOfSpace", s |-> s]
                      ELSE LET inner == [tag |-> "Inner", shift |-> d,
                                         children |->
                                             IF crit_bit(key, d) = 1
                                             THEN <<pos.h, a.h>>
                                             ELSE <<a.h, pos.h>>]
                               b == alloc_node(a.s, inner)
                           IN  IF ~b.ok
                               THEN [res |-> "SlabOutOfSpace",
                                     s |-> release(a.s, a.h)]
                               ELSE [res |-> "ok",
                                     s |-> [relink(b.s, pos.parent, pos.h, b.h)
                                               EXCEPT !.leaf_count = @ + 1]]

\* The Inner whose child is the leaf of key, and the Inner above it.
RECURSIVE parent_of(_, _, _, _, _)
parent_of(s, grand, parent, h, key) ==
    IF s.nodes[h].tag = "Leaf" THEN [grand |-> grand, parent |-> parent, h |-> h]
    ELSE parent_of(s, parent, h, child(s, h, key), key)

\* remove_by_key on the node array: the sibling takes the parent's place, the
\* parent Inner and the leaf are freed.
slots_remove_by_key(s, key) ==
    IF s.root_handle = NoHandle THEN [found |-> FALSE, s |-> s]
    ELSE LET f == parent_of(s, NoHandle, NoHandle, s.root_handle, key)
         IN  IF s.nodes[f.h].key # key THEN [found |-> FALSE, s |-> s]
             ELSE IF f.parent = NoHandle
             THEN [found |-> TRUE,
                   s |-> [free_node(s, f.h) EXCEPT !.root_handle = NoHandle,
                                                   !.leaf_count = @ - 1]]
             ELSE LET sibling == CHOOSE c \in {s.nodes[f.parent].children[1],
                                               s.nodes[f.parent].children[2]} :
                                     c # f.h
                      linked == relink(s, f.grand, f.parent, sibling)
                  IN  [found |-> TRUE,
                       s |-> [free_node(free_node(linked, f.parent), f.h)
                                 EXCEPT !.leaf_count = @ - 1]]

RECURSIVE slots_find_min(_, _)
slots_find_min(s, h) ==
    IF s.nodes[h].tag = "Leaf" THEN s.nodes[h].key
    ELSE slots_find_min(s, s.nodes[h].children[1])

RECURSIVE slots_find_max(_, _)
slots_find_max(s, h) ==
    IF s.nodes[h].tag = "Leaf" THEN s.nodes[h].key
    ELSE slots_find_max(s, s.nodes[h].children[2])

MaxSlabOps == 7

InitSlab ==
    /\ bids = NodeArray_new
    /\ asks = Slab_new
    /\ queue = EventQueue_new
    /\ market = [tag |-> "Market", caller_authority |-> "authority", fee_budget |-> 0]
    /\ tags = CreatedTags
    /\ open = {}
    /\ last = [op |-> "init", arg |-> NoArg, authority |-> "authority", result |-> "ok",
               summary |-> NoSummary,
               steps |-> <<>>, events |-> <<>>, posted |-> NoLeaf, evicted |-> NoLeaf]
    /\ calls = 0
    /\ pushed = <<>>
    /\ popped = <<>>

InsertLeaf ==
    /\ calls < MaxSlabOps
    /\ \E key \in SlabKeys :
        \E r \in {slots_insert_leaf(bids, key)} :
            /\ bids' = r.s
            /\ open' = IF r.res = "ok" THEN open \cup {key} ELSE open
            /\ last' = [last EXCEPT !.op = "insert_leaf", !.arg = key, !.result = r.res]
    /\ calls' = calls + 1
    /\ UNCHANGED <<asks, queue, market, tags, pushed, popped>>

RemoveByKey ==
    /\ calls < MaxSlabOps
    /\ \E key \in SlabKeys :
        \E r \in {slots_remove_by_key(bids, key)} :
            /\ bids' = r.s
            /\ open' = open \ {key}
            /\ last' = [last EXCEPT !.op = "remove_by_key", !.arg = key,
                                    !.result = IF r.found THEN "ok" ELSE "none"]
    /\ calls' = calls + 1
    /\ UNCHANGED <<asks, queue, market, tags, pushed, popped>>

\* orderbook.rs 334-358 on the node array: an insert that finds no space boots
\* out the lowest key and is tried again.
InsertEvicting ==
    /\ calls < MaxSlabOps
    /\ \E key \in SlabKeys :
        \E r \in {slots_insert_leaf(bids, key)} :
            /\ r.res = "SlabOutOfSpace"
            /\ \E m \in {slots_find_min(r.s, r.s.root_handle)} :
               \E e \in {slots_remove_by_key(r.s, m)} :
               \E r2 \in {slots_insert_leaf(e.s, key)} :
                /\ bids' = r2.s
                /\ open' = IF r2.res = "ok" THEN (open \ {m}) \cup {key} ELSE open \ {m}
                /\ last' = [last EXCEPT !.op = "insert_evicting", !.arg = key,
                                        !.result = r2.res]
    /\ calls' = calls + 1
    /\ UNCHANGED <<asks, queue, market, tags, pushed, popped>>

NextSlab == InsertLeaf \/ RemoveByKey \/ InsertEvicting

SpecSlab == InitSlab /\ [][NextSlab]_vars

(***************************************************************************)
(* The callback blob over a market's life: limit and immediate orders of    *)
(* one size at one price, so that orders are posted, filled and booted out *)
(* more often than a tree has room for leaves.  The parameters of each     *)
(* new_order are kept in the history.                                      *)
(***************************************************************************)
MaxBlobCalls == 7

BlobTypes ==
    [post_only : {FALSE}, post_allowed : BOOLEAN,
     self_trade_behavior : {"DecrementTake"}, match_limit : {1}]

BlobInputs ==
    [prices |-> {4}, bases |-> {2}, quotes |-> {U64_MAX},
     infos |-> {<<1, 1>>}, types |-> BlobTypes, history |-> TRUE,
     signers |-> {"authority"}]

NewOrderBlob == calls < MaxBlobCalls /\ NewOrderCall(BlobInputs)

NextBlob == NewOrderBlob \/ ConsumeEvents

SpecBlob == Init /\ [][NextBlob]_vars

(***************************************************************************)
(* get_spread, read on books of resting orders at three prices.  NoOrder   *)
(* stands for the None of a price as well.                                 *)
(***************************************************************************)
\* orderbook.rs 116-127: both prices are read at find_max of their tree.
get_spread(bk) ==
    LET best_bid == find_max(bk["Bid"])
        best_ask == find_max(bk["Ask"])
    IN  [best_bid_price |-> IF best_bid = NoOrder THEN NoOrder
                            ELSE price(get_node(bk["Bid"], best_bid).key),
         best_ask_price |-> IF best_ask = NoOrder THEN NoOrder
                            ELSE price(get_node(bk["Ask"], best_ask).key)]

SpreadTypes ==
    [post_only : {TRUE}, post_allowed : {TRUE},
     self_trade_behavior : {"DecrementTake"}, match_limit : {1}]

SpreadInputs ==
    [prices |-> {2, 4, 6}, bases |-> {2}, quotes |-> {U64_MAX},
     infos |-> {<<1, 1>>}, types |-> SpreadTypes, history |-> FALSE,
     signers |-> {"authority"}]

NewOrderSpread == calls < MaxCalls /\ NewOrderCall(SpreadInputs)

\* The spread read by a caller; it is kept in the history's summary.
GetSpread ==
    /\ last' = [last EXCEPT !.op = "get_spread", !.arg = NoArg, !.result = "ok",
                            !.summary = get_spread([Bid |-> bids, Ask |-> asks])]
    /\ UNCHANGED <<bids, asks, queue, market, tags, open, calls, pushed, popped>>

NextSpread == NewOrderSpread \/ CancelOrder \/ GetSpread

SpecSpread == Init /\ [][NextSpread]_vars

(***************************************************************************)
(* Properties.                                                             *)
(***************************************************************************)
Book == [Bid |-> bids, Ask |-> asks]

Resting == bids.leaves \cup asks.leaves

StepsOf(kinds) == {i \in 1 .. Len(last.steps) : last.steps[i].kind \in kinds}

\* a is a strictly more aggressive price than b on that side
Better(side, a, b) == IF side = "Bid" THEN a > b ELSE a < b

RECURSIVE SumFills(_, _)
SumFills(events, field) ==
    IF events = <<>> THEN 0
    ELSE (IF Head(events).type = "Fill" THEN Head(events)[field] ELSE 0)
         + SumFills(Tail(events), field)

NewOrderOk == last.op = "new_order" /\ last.result = "ok"

HasFill == \E i \in 1 .. Len(last.events) : last.events[i].type = "Fill"

\* C1: in every reachable state find_bbo(Bid) is a resting bid of the highest
\* price and find_bbo(Ask) a resting ask of the lowest price, and no maker was
\* filled by the last call while a strictly better-priced maker rested on its side.
BestPriceFirst ==
    /\ \A side \in Sides :
        Book[side].leaves # {} =>
            /\ find_bbo(Book, side) \in Keys(Book[side])
            /\ \A l \in Book[side].leaves :
                   ~Better(side, price(l.key), price(find_bbo(Book, side)))
    /\ \A i \in StepsOf({"fill"}) :
           \A pr \in last.steps[i].prices :
               ~Better(last.steps[i].side, pr, price(last.steps[i].maker.key))

\* C1 witness: a maker was filled while a maker of another price rested beside it.
BestPriceFirstWitness ==
    \E i \in StepsOf({"fill"}) : Cardinality(last.steps[i].prices) >= 2

\* C2: time priority: no maker is matched (filled or self-trade-cancelled) while
\* an order posted earlier at the same price on the same side is still open.
TimePriority ==
    \A i \in StepsOf({"fill", "cancel"}) : last.steps[i].earlier = {}

\* C3: base conservation: after a successful new_order, total_base_qty minus
\* total_base_qty_posted is the sum of base_size over the Fill events the call
\* pushed, and total_base_qty_posted is the base_quantity of the leaf the call
\* inserted (0 when nothing is posted).
BaseConservation ==
    NewOrderOk =>
        /\ last.summary.total_base_qty - last.summary.total_base_qty_posted
               = SumFills(last.events, "base_size")
        /\ IF last.summary.posted_order_id = NoOrder
           THEN last.summary.total_base_qty_posted = 0
           ELSE \E l \in Book[get_side_from_order_id(last.summary.posted_order_id)].leaves :
                    /\ l.key = last.summary.posted_order_id
                    /\ l.base_quantity = last.summary.total_base_qty_posted

\* C3 witness: a successful new_order that filled a maker and posted its residual.
BaseConservationWitness ==
    NewOrderOk /\ HasFill /\ last.summary.posted_order_id # NoOrder

QueueFullRollsBack ==
    [][(last'.op = "new_order" /\ last'.result = "EventQueueFull")
           => (bids' = bids /\ asks' = asks /\ queue' = queue)]_vars

\* C6: a new_order that returns WouldSelfTrade leaves both trees and the event
\* queue as they were before the call.
AbortRollsBack ==
    [][(last'.op = "new_order" /\ last'.result = "WouldSelfTrade")
           => (bids' = bids /\ asks' = asks /\ queue' = queue)]_vars

SharesId(step) == IdPrefix(step.taker_info) = IdPrefix(step.maker.callback_info)

\* C7: under CancelProvide, a step on a maker with the taker's callback identifier
\* decrements or removes the maker, pushes Out events only, leaves the taker's
\* remaining base and quote unchanged and does not decrement match_limit.
CancelProvideStep ==
    \A i \in 1 .. Len(last.steps) :
        LET step == last.steps[i] IN
        (step.self_trade_behavior = "CancelProvide" /\ SharesId(step)) =>
            /\ step.kind = "cancel"
            /\ step.left < step.maker.base_quantity
            /\ step.events # <<>>
            /\ \A j \in 1 .. Len(step.events) : step.events[j].type = "Out"
            /\ step.base_after = step.base
            /\ step.quote_after = step.quote
            /\ step.ml_after = step.ml

\* C7 witness: a CancelProvide step on a maker that shares the taker's identifier
\* but not its whole callback information, in a call with a budget of one maker.
CancelProvideStepWitness ==
    \E i \in 1 .. Len(last.steps) :
        /\ last.steps[i].self_trade_behavior = "CancelProvide"
        /\ SharesId(last.steps[i])
        /\ last.steps[i].taker_info # last.steps[i].maker.callback_info
        /\ last.steps[i].ml = 1

\* C8: after any successful call returns, no resting leaf has
\* base_quantity <= min_base_order_size.
NoDustRests ==
    (last.op \in {"new_order", "cancel_order"} /\ last.result = "ok") =>
        \A l \in Resting : l.base_quantity > min_base_order_size

Unconsumed == SubSeq(pushed, Len(popped) + 1, Len(pushed))

QueueShape ==
    /\ queue.count <= Capacity
    /\ queue.head < Capacity
    /\ queue.count = Len(Unconsumed)
    /\ \A i \in 1 .. Len(Unconsumed) :
           queue.buffer[(queue.head + i - 1) % Capacity] = Unconsumed[i]

\* C9: event-queue structure: count <= capacity, head < capacity, the unconsumed
\* events occupy exactly the slots head .. head+count-1 (mod capacity), and a
\* successful push_back writes slot (head + count) mod capacity and changes count
\* and seq_num but not head.
QueueStructure ==
    [][/\ QueueShape'
       /\ (last'.op = "push_back" /\ last'.result = "ok") =>
              /\ queue'.head = queue.head
              /\ queue'.count = queue.count + 1
              /\ queue'.seq_num = queue.seq_num + 1
              /\ queue'.buffer = [queue.buffer EXCEPT
                     ![(queue.head + queue.count) % Capacity] = last'.events[1]]]_vars

\* C10: event-queue FIFO: the values pop_front returned are the events pushed, in
\* push order: none lost, none returned as None padding, none read from outside
\* the ring.
QueueFifo ==
    /\ Len(popped) <= Len(pushed)
    /\ popped = SubSeq(pushed, 1, Len(popped))
    /\ queue.count = Len(pushed) - Len(popped)
    /\ last.result # "panic"

\* C11: seq_num never decreases: over any call it grows by exactly the number of
\* events push_back accepted during the call (one per successful push_back), so
\* consume_events (pop_front) and a refused push_back leave it unchanged.
SeqNumMonotonic ==
    [][/\ queue'.seq_num >= queue.seq_num
       /\ queue'.seq_num - queue.seq_num
              = (IF last'.op = "new_order" THEN Len(last'.events) ELSE 0)]_vars

\* C11 witness: consume_events has popped an event from a queue whose seq_num
\* earlier pushes had advanced.
SeqNumMonotonicWitness ==
    /\ last.op = "consume_events" /\ last.result = "ok" /\ last.events # <<>>
    /\ queue.seq_num > 0

\* C12: order ids are unique: the id a successful new_order returns in
\* posted_order_id is not the id of an order posted before it, in particular not
\* the key of an order resting when the call was made.
PostedIdsDistinct ==
    [][(/\ last'.op = "new_order" /\ last'.result = "ok"
        /\ last'.summary.posted_order_id # NoOrder)
           => last'.summary.posted_order_id \notin Keys(bids) \cup Keys(asks)]_vars

IsResting(order_id) == order_id \in Keys(bids) \cup Keys(asks)

\* C13: cancel_order(id), called when no resting order has key id, returns
\* OrderNotFound and leaves both trees and the event queue unchanged; so a second
\* cancel_order(id) right after a successful one returns OrderNotFound.
CancelAbsent ==
    [][last'.op = "cancel_order" =>
          /\ ~IsResting(last'.arg) =>
                 /\ last'.result = "OrderNotFound"
                 /\ bids' = bids /\ asks' = asks /\ queue' = queue
          /\ (last.op = "cancel_order" /\ last.result = "ok" /\ last'.arg = last.arg)
                 => last'.result = "OrderNotFound"]_vars

\* C13 witness: cancel_order was refused with OrderNotFound while orders rest and
\* the queue holds events.
CancelAbsentWitness ==
    /\ last.op = "cancel_order" /\ last.result = "OrderNotFound"
    /\ Resting # {} /\ queue.count > 0

\* C14: a successful cancel_order(id) removes exactly the leaf with key id from
\* the tree its side flag selects, leaves the other tree and every other leaf
\* unchanged, pushes no event (the queue is unchanged) and reports
\* total_base_qty = leaf.base_quantity, total_quote_qty =
\* fp32_mul(leaf.base_quantity, price(leaf.key)), total_base_qty_posted = 0 and
\* posted_order_id = None.
CancelRemovesOne ==
    [][(last'.op = "cancel_order" /\ last'.result = "ok") =>
          /\ queue' = queue
          /\ \E leaf \in (IF get_side_from_order_id(last'.arg) = "Bid"
                          THEN bids.leaves ELSE asks.leaves) :
                 /\ leaf.key = last'.arg
                 /\ IF get_side_from_order_id(last'.arg) = "Bid"
                    THEN bids'.leaves = bids.leaves \ {leaf} /\ asks' = asks
                    ELSE asks'.leaves = asks.leaves \ {leaf} /\ bids' = bids
                 /\ last'.summary =
                        [posted_order_id |-> NoOrder,
                         total_base_qty |-> leaf.base_quantity,
                         total_quote_qty |-> fp32_mul(leaf.base_quantity, price(leaf.key)),
                         total_base_qty_posted |-> 0]]_vars

\* C14 witness: an order was cancelled while another order rests.
CancelRemovesOneWitness ==
    /\ last.op = "cancel_order" /\ last.result = "ok"
    /\ last.summary.total_quote_qty > 0
    /\ Resting # {}

Tree(side) == IF side = "Bid" THEN bids ELSE asks

TreeAfter(side) == IF side = "Bid" THEN bids' ELSE asks'

\* The last call was a new_order that booted out a resting order and returned Ok.
Evicted == last.op = "new_order" /\ last.result = "ok" /\ last.evicted # NoLeaf

\* C15: when posting hits SlabOutOfSpace, exactly one resting order is evicted,
\* it is the least aggressive order of the new order's side (no resting order of
\* that side has a worse price), the new order then rests in the tree, and no
\* order of the opposite side is touched by the eviction (only makers matched by
\* the call change there).
EvictsLeastAggressive ==
    [][(last'.op = "new_order" /\ last'.result = "ok" /\ last'.posted # NoLeaf) =>
          LET side == last'.arg.side
              out_of_space == insert_leaf(Tree(side), last'.posted).res = "SlabOutOfSpace"
          IN  /\ out_of_space <=> last'.evicted # NoLeaf
              /\ out_of_space =>
                  /\ last'.evicted \in Tree(side).leaves
                  /\ \A l \in Tree(side).leaves :
                         ~Better(side, price(last'.evicted.key), price(l.key))
                  /\ TreeAfter(side).leaves
                         = (Tree(side).leaves \ {last'.evicted}) \cup {last'.posted}
                  /\ \A l \in Tree(opposite(side)).leaves :
                         \/ l \in TreeAfter(opposite(side)).leaves
                         \/ \E i \in 1 .. Len(last'.steps) :
                                last'.steps[i].maker.key = l.key
                  /\ Keys(TreeAfter(opposite(side))) \subseteq Keys(Tree(opposite(side)))]_vars

\* C15 witness: a post booted out a resting order of its side while an order
\* rests on the opposite side.
EvictsLeastAggressiveWitness ==
    Evicted /\ Tree(opposite(last.arg.side)).leaves # {}

\* C16: the Out event pushed for an eviction, the last event of the call, carries
\* the side of the new (and evicted) order, order_id = the evicted key,
\* base_size = the evicted base_quantity and delete = true.
EvictionOutSide ==
    Evicted =>
        /\ last.events # <<>>
        /\ last.events[Len(last.events)]
               = Out(last.arg.side, last.evicted.key, last.evicted.base_quantity, TRUE)

\* C17: when the bid tree is at capacity and a new bid is posted at a price lower
\* than every resting bid, no eviction is triggered: no resting bid is removed
\* and no Out event is pushed for one.
LowBidEvictsNothing ==
    [][(/\ last'.op = "new_order"
        /\ last'.arg.side = "Bid"
        /\ bids.leaves # {}
        /\ NodesUsed(bids) + 2 > SlabNodes
        /\ \A l \in bids.leaves : last'.arg.limit_price < price(l.key))
           => /\ bids.leaves \subseteq bids'.leaves
              /\ last'.evicted = NoLeaf
              /\ \A i \in 1 .. Len(last'.events) :
                     last'.events[i].type = "Out"
                         => get_side_from_order_id(last'.events[i].order_id) # "Bid"]_vars

\* C18: close_market succeeds if and only if the bids tree is empty, the asks
\* tree is empty and the event queue has count = 0; otherwise it fails with
\* MarketStillActive and the market tag is left as it was; on success the tag
\* becomes Uninitialized.
CloseMarketIffIdle ==
    [][last'.op = "close_market" =>
          IF bids.leaves = {} /\ asks.leaves = {} /\ queue.count = 0
          THEN last'.result = "ok" /\ market'.tag = "Uninitialized"
          ELSE last'.result = "MarketStillActive" /\ market' = market]_vars

\* C18 witness: close_market was refused on a market whose trees are empty and
\* whose queue still holds events, the tag staying Market.
CloseMarketIffIdleWitness ==
    /\ last.op = "close_market" /\ last.result = "MarketStillActive"
    /\ Resting = {} /\ queue.count > 0 /\ market.tag = "Market"

\* The order with parameters p, made in the current state, has a limit price that
\* crosses the best order of the opposite side.
Crossing(p) ==
    /\ Tree(opposite(p.side)).leaves # {}
    /\ crosses(p.side, p.limit_price, price(find_bbo(Book, opposite(p.side))))

\* The call changed neither tree nor the queue and reports nothing traded or posted.
NothingDone ==
    /\ bids' = bids /\ asks' = asks /\ queue' = queue
    /\ last'.result = "ok"
    /\ last'.events = <<>>
    /\ last'.summary = NoSummary

\* The call posted its order without matching: no step, no Fill, and the leaf of
\* the id returned rests on the order's side.
PostedUnmatched ==
    /\ last'.result = "ok"
    /\ last'.steps = <<>>
    /\ \A i \in 1 .. Len(last'.events) : last'.events[i].type # "Fill"
    /\ last'.summary.posted_order_id # NoOrder
    /\ last'.summary.posted_order_id \in Keys(TreeAfter(last'.arg.side))

BaseToPost(p) == Min(fp32_div(p.max_quote_qty, p.limit_price), p.max_base_qty)

PostOnlyCrossFails ==
    [][(last'.op = "new_order" /\ last'.arg.post_only /\ Crossing(last'.arg))
           => last'.result # "ok"]_vars

\* C21: new_order with max_base_qty = 0 is rejected with InvalidBaseQuantity and
\* changes neither tree nor the event queue.
ZeroBaseRejected ==
    [][(last'.op = "new_order" /\ last'.arg.max_base_qty = 0) =>
          /\ last'.result = "InvalidBaseQuantity"
          /\ bids' = bids /\ asks' = asks /\ queue' = queue]_vars

MarketCalls == {"process", "new_order", "cancel_order", "consume_events", "close_market"}

\* C22: every entry point that mutates a market (new_order, cancel_order,
\* consume_events, close_market) succeeds only when the authority that signs the
\* call is market.caller_authority; with any other authority the call fails with
\* WrongCallerAuthority and no tree, queue or market field changes.
AuthorityChecked ==
    [][(last'.op \in MarketCalls /\ last'.authority # market.caller_authority) =>
          /\ last'.result = "WrongCallerAuthority"
          /\ bids' = bids /\ asks' = asks /\ queue' = queue /\ market' = market]_vars

\* The native processor alone, on an open market, refuses a stranger and changes
\* nothing.
ProcessAuthorityChecked ==
    [][(/\ last'.op = "process" /\ market.tag = "Market"
        /\ last'.authority # market.caller_authority) =>
          /\ last'.result = "WrongCallerAuthority"
          /\ bids' = bids /\ asks' = asks /\ queue' = queue /\ market' = market]_vars

\* C23: order-id round trip: for every price, side s and sequence number seq
\* below the side flag (2^63 in the program), the id gen_order_id composes from
\* them has side flag set exactly when s is Bid, so get_side_from_order_id gives
\* back s, and its upper half is the price.  The sequence number composed into
\* the id is the queue's seq_num + 1.
OrderIdRoundTrip ==
    (last.op = "gen_order_id" /\ queue.seq_num + 1 < ORDER_ID_SIDE_FLAG) =>
        /\ get_side_from_order_id(last.summary.posted_order_id) = last.arg.side
        /\ (last.summary.posted_order_id \div ORDER_ID_SIDE_FLAG) % 2 = 1
               <=> last.arg.side = "Bid"
        /\ last.summary.posted_order_id \div KeyLow = last.arg.limit_price

\* C23 witness: a Bid id was composed from the largest price and the largest
\* sequence number below the side flag.
OrderIdRoundTripWitness ==
    /\ last.op = "gen_order_id" /\ last.arg.side = "Bid"
    /\ last.arg.limit_price = U64_MAX
    /\ queue.seq_num + 1 = ORDER_ID_SIDE_FLAG - 1

\* C24: every Fill event carries the maker's stored callback_info as
\* maker_callback_info and the taker's callback_info as taker_callback_info, and
\* every Out event (min-size removal, CancelProvide, eviction) carries the
\* callback_info stored for the resting order when it was inserted.
EventsCarryCallbackInfo ==
    /\ \A i \in 1 .. Len(last.steps) :
        \A j \in 1 .. Len(last.steps[i].events) :
            LET step == last.steps[i]
                event == step.events[j]
            IN  IF event.type = "Fill"
                THEN /\ event.maker_callback_info = step.maker.callback_info
                     /\ event.taker_callback_info = step.taker_info
                ELSE event.callback_info = step.maker.callback_info
    /\ (last.evicted # NoLeaf /\ last.events # <<>>) =>
           last.events[Len(last.events)].callback_info = last.evicted.callback_info

RECURSIVE StepEvents(_)
StepEvents(steps) ==
    IF steps = <<>> THEN <<>> ELSE Head(steps).events \o StepEvents(Tail(steps))

\* The events of the last new_order were pushed step by step: a fill step pushed
\* the Fill of its maker and then, exactly when what the fill left of the maker
\* is <= min_base_order_size, the Out of that maker with that quantity and
\* delete = true; a CancelProvide step pushed one Out; only the Out of an
\* eviction follows the steps.
PushOrder ==
    last.op = "new_order" =>
        /\ Len(last.events) - Len(StepEvents(last.steps)) \in {0, 1}
        /\ SubSeq(last.events, 1, Len(StepEvents(last.steps))) = StepEvents(last.steps)
        /\ \A i \in 1 .. Len(last.steps) :
            LET step == last.steps[i]
                events == step.events
                left == step.maker.base_quantity - events[1].base_size
            IN  IF step.kind = "fill"
                THEN /\ events[1].type = "Fill"
                     /\ events[1].maker_order_id = step.maker.key
                     /\ Len(events) = (IF left <= min_base_order_size THEN 2 ELSE 1)
                     /\ Len(events) = 2 =>
                            /\ events[2].type = "Out"
                            /\ events[2].order_id = step.maker.key
                            /\ events[2].base_size = left
                            /\ events[2].delete
                ELSE Len(events) = 1 /\ events[1].type = "Out"

\* The events of the last new_order are the last of the queue's occupied slots
\* head .. head + count - 1 (mod capacity), in the order pushed.
QueueEndsWithEvents ==
    last.op = "new_order" =>
        /\ Len(last.events) <= queue.count
        /\ \A i \in 1 .. Len(last.events) :
               queue.buffer[(queue.head + queue.count - Len(last.events) + i - 1)
                            % Capacity] = last.events[i]

\* C25: within one new_order call, events appear in the queue in the order
\* generated: for each matched maker the Fill is pushed first and an Out for that
\* same maker follows immediately iff the maker's remaining quantity after the
\* fill is <= min_base_order_size (base_size = that remaining quantity, delete =
\* true); a CancelProvide step pushes only an Out.
EventsInOrder == PushOrder /\ QueueEndsWithEvents

\* C26: for every n and every queue state, including an empty queue and n greater
\* than count, consume_events(n) completes without aborting, removes exactly
\* min(n, count) events from the head of the queue in FIFO order, leaves seq_num
\* and both trees unchanged, and reports min(n, count) as the number consumed.
ConsumeEventsTotal ==
    [][last'.op = "consume_events" =>
          /\ last'.result = "ok"
          /\ Len(last'.events) = Min(last'.arg, queue.count)
          /\ \A i \in 1 .. Len(last'.events) :
                 last'.events[i] = queue.buffer[(queue.head + i - 1) % Capacity]
          /\ queue'.count = queue.count - Min(last'.arg, queue.count)
          /\ queue'.head = (queue.head + Min(last'.arg, queue.count)) % Capacity
          /\ queue'.seq_num = queue.seq_num
          /\ bids' = bids /\ asks' = asks]_vars

FillCount == Cardinality({i \in 1 .. Len(last.events) : last.events[i].type = "Fill"})

\* C27: a single new_order call fills at most match_limit maker orders: the
\* number of Fill events it pushes is <= match_limit, and with match_limit = 0 it
\* pushes no Fill and modifies no maker (the opposite tree is as it was).
MatchLimitBounds ==
    [][last'.op = "new_order" =>
          /\ FillCount' <= last'.arg.match_limit
          /\ last'.arg.match_limit = 0 =>
                 /\ FillCount' = 0
                 /\ last'.arg.side = "Bid" => asks' = asks
                 /\ last'.arg.side = "Ask" => bids' = bids]_vars

\* C27 witness: a call with a budget of one maker filled one maker and stopped
\* with base left to trade and a maker it crosses still resting.
MatchLimitBoundsWitness ==
    /\ last.op = "new_order" /\ last.result = "ok"
    /\ last.arg.match_limit = 1 /\ FillCount = 1
    /\ last.summary.total_base_qty < last.arg.max_base_qty
    /\ Crossing(last.arg)

AllUninitialized ==
    /\ market.tag = "Uninitialized"
    /\ \A a \in DOMAIN tags : tags[a] = "Uninitialized"

\* C28: create_market succeeds only if the market, event-queue, bids and asks
\* buffers are all Uninitialized; if any is already initialized it fails with
\* AlreadyInitialized and changes nothing; after success the market tag is
\* Market, fee_budget = 0, the event queue is empty (count = 0) and both trees
\* are empty.
CreateMarketFresh ==
    [][last'.op = "create_market" =>
          /\ last'.result = "ok" => AllUninitialized
          /\ ~AllUninitialized =>
                 /\ last'.result = "AlreadyInitialized"
                 /\ market' = market /\ tags' = tags
                 /\ bids' = bids /\ asks' = asks /\ queue' = queue
          /\ last'.result = "ok" =>
                 /\ market'.tag = "Market"
                 /\ market'.fee_budget = 0
                 /\ queue'.count = 0
                 /\ bids'.leaves = {} /\ asks'.leaves = {}]_vars

\* C28 witness: create_market was refused on a market buffer that is fresh (a
\* market that was closed) while the buffers of its queue and trees are not.
CreateMarketFreshWitness ==
    /\ last.op = "create_market" /\ last.result = "AlreadyInitialized"
    /\ market.tag = "Uninitialized"
    /\ tags = CreatedTags

\* What the last new_order had left when its matching loop ended: the match
\* budget (a fill takes one), the base and the quote (the fills take theirs).
MatchLimitLeft == last.arg.match_limit - FillCount

BaseLeft == last.arg.max_base_qty - SumFills(last.events, "base_size")

QuoteLeft == last.arg.max_quote_qty - SumFills(last.events, "quote_size")

\* The loop of the last new_order ended with crossed = false: with budget left,
\* on an empty opposite side or on a best opposite price its limit does not cross.
EndedUncrossed == MatchLimitLeft > 0 /\ ~Crossing(last.arg)

FillsCrossAtMakerPrice ==
    last.op = "new_order" =>
        /\ FillCount = Cardinality(StepsOf({"fill"}))
        /\ \A i \in StepsOf({"fill"}) :
            LET step == last.steps[i]
                fill == step.events[1]
                p == step.maker.key \div KeyLow
            IN  /\ fill.type = "Fill"
                /\ fill.maker_order_id = step.maker.key
                /\ fill.taker_side = last.arg.side
                /\ IF last.arg.side = "Bid" THEN last.arg.limit_price >= p
                   ELSE last.arg.limit_price <= p
                /\ fill.quote_size = fp32_mul(fill.base_size, p)
                /\ fill.base_size = Min(Min(step.maker.base_quantity, step.base),
                                        fp32_div(step.quote, p))
                /\ fill.base_size >= 1

\* C30 witness: a Fill whose size was set by the taker's quote budget, below both
\* the maker's quantity and the taker's remaining base, at a maker price better
\* than the taker's limit.
FillsCrossAtMakerPriceWitness ==
    /\ last.op = "new_order"
    /\ \E i \in StepsOf({"fill"}) :
        LET step == last.steps[i]
            p == step.maker.key \div KeyLow
        IN  /\ fp32_div(step.quote, p) < Min(step.maker.base_quantity, step.base)
            /\ p # last.arg.limit_price

\* The reward consume_events owes on a queue of count events when asked for n.
RewardDue(fee_budget, count, n) == (fee_budget * Min(n, count)) \div count

\* C31: consume_events on a queue that holds events succeeds, takes exactly
\* floor(fee_budget * min(n, count) / count) out of the fee budget, which
\* therefore never goes below 0, and takes the whole fee budget when every
\* queued event is consumed.
RewardIsProportional ==
    [][last'.op = "consume_events" /\ calls' # calls /\ queue.count > 0
       => /\ last'.result = "ok"
          /\ market'.fee_budget
               = market.fee_budget
                   - RewardDue(market.fee_budget, queue.count, last'.arg)
          /\ market'.fee_budget >= 0
          /\ (last'.arg >= queue.count => market'.fee_budget = 0)]_vars

\* The payout when the product fits u64 follows the formula.
RewardIsProportionalInRange ==
    [][last'.op = "consume_events" /\ calls' # calls /\ queue.count > 0
       /\ market.fee_budget * Min(last'.arg, queue.count) <= U64_MAX
       => /\ last'.result = "ok"
          /\ market'.fee_budget
               = market.fee_budget
                   - RewardDue(market.fee_budget, queue.count, last'.arg)
          /\ (last'.arg >= queue.count => market'.fee_budget = 0)]_vars

\* The fee budget stays a u64 whatever the build does with the product.
FeeBudgetInRange == market.fee_budget \in 0 .. U64_MAX

\* The handles reached from h in at most fuel steps down.
RECURSIVE ReachableFrom(_, _, _)
ReachableFrom(s, h, fuel) ==
    IF h = NoHandle \/ fuel = 0 THEN {}
    ELSE IF s.nodes[h].tag = "Inner"
    THEN {h} \cup ReachableFrom(s, s.nodes[h].children[1], fuel - 1)
             \cup ReachableFrom(s, s.nodes[h].children[2], fuel - 1)
    ELSE {h}

Reachable(s) == ReachableFrom(s, s.root_handle, SlabSlots)

\* The free list from h on, cut after fuel handles.
RECURSIVE FreeListFrom(_, _, _)
FreeListFrom(s, h, fuel) ==
    IF h = NoHandle \/ fuel = 0 THEN <<>>
    ELSE IF s.nodes[h].tag = "Free"
    THEN <<h>> \o FreeListFrom(s, s.nodes[h].next, fuel - 1)
    ELSE <<h>>

FreeList(s) == FreeListFrom(s, s.free_list_head, SlabSlots + 1)

FreeSet(s) == {FreeList(s)[i] : i \in 1 .. Len(FreeList(s))}

ReachableLeaves(s) == {h \in Reachable(s) : s.nodes[h].tag = "Leaf"}

ReachableInners(s) == {h \in Reachable(s) : s.nodes[h].tag = "Inner"}

BookNeverCrossed ==
    bids.leaves # {} /\ asks.leaves # {}
    => price(find_bbo(Book, "Bid")) < price(find_bbo(Book, "Ask"))

\* An order that filled a maker left its residual resting, opposite orders remain.
BookNeverCrossedWitness ==
    /\ NewOrderOk /\ HasFill
    /\ last.posted # NoLeaf
    /\ bids.leaves # {} /\ asks.leaves # {}

RECURSIVE SumQuantity(_)
SumQuantity(leaves) ==
    IF leaves = {} THEN 0
    ELSE LET l == CHOOSE x \in leaves : TRUE
         IN  l.base_quantity + SumQuantity(leaves \ {l})

\* C34: the matching loop of new_order terminates: every iteration that does
\* not leave the loop either fills a maker and takes one off match_limit, or
\* (CancelProvide) leaves match_limit alone and takes a positive quantity off
\* the best maker; so a call runs at most match_limit fill iterations and at
\* most as many cancel iterations as base quantity rested on the opposite side.
MatchLoopTerminates ==
    [][last'.op = "new_order" =>
          /\ \A i \in 1 .. Len(last'.steps) :
                LET s == last'.steps[i]
                IN  \/ /\ s.kind = "fill"
                       /\ s.ml_after = s.ml - 1 \/ last'.result = "EventQueueFull"
                       /\ s.left < s.maker.base_quantity
                    \/ /\ s.kind = "cancel"
                       /\ s.ml_after = s.ml
                       /\ s.left < s.maker.base_quantity
          /\ Len(last'.steps)
               <= last'.arg.match_limit
                    + SumQuantity(Tree(opposite(last'.arg.side)).leaves)]_vars

\* A CancelProvide order went through its own resting order in two iterations
\* and through another maker after that.
MatchLoopTerminatesWitness ==
    /\ NewOrderOk
    /\ Len(last.steps) >= 3
    /\ last.steps[1].kind = "cancel" /\ last.steps[2].kind = "cancel"
    /\ last.steps[1].maker.key = last.steps[2].maker.key
    /\ last.steps[3].kind = "fill"

\* C35: under CancelProvide a new_order call pushes exactly one Out event for
\* each of its own resting orders it meets, whatever the order's size: no two
\* cancel iterations of one call hit the same maker.
OneOutPerSelfTrade ==
    [][(last'.op = "new_order" /\ last'.arg.self_trade_behavior = "CancelProvide") =>
          \A i, j \in 1 .. Len(last'.steps) :
              (/\ last'.steps[i].kind = "cancel"
               /\ last'.steps[j].kind = "cancel"
               /\ last'.steps[i].maker.key = last'.steps[j].maker.key)
              => i = j]_vars

\* An own resting order no larger than the taker's remaining base quantity is
\* cancelled in that iteration, with an Out event that deletes it, and is not
\* met again.
OneOutWhenTakerCovers ==
    [][(last'.op = "new_order" /\ last'.arg.self_trade_behavior = "CancelProvide") =>
          \A i \in 1 .. Len(last'.steps) :
              (/\ last'.steps[i].kind = "cancel"
               /\ last'.steps[i].maker.base_quantity <= last'.steps[i].base)
              => /\ last'.steps[i].events[1].delete
                 /\ \A j \in i + 1 .. Len(last'.steps) :
                        last'.steps[j].maker.key # last'.steps[i].maker.key]_vars

\* C36: no subtraction of new_order goes below 0: a fill trades no more base
\* than the order has left and than the maker holds, and no more quote than
\* the order has left; a post takes no more base and quote than is left; so the
\* summary of a call that returned Ok has total_base_qty <= max_base_qty and
\* total_quote_qty <= max_quote_qty.
NoUnderflow ==
    [][last'.op = "new_order" =>
          /\ \A i \in 1 .. Len(last'.steps) :
                LET s == last'.steps[i]
                IN  /\ s.left >= 0 /\ s.base_after >= 0 /\ s.quote_after >= 0
                    /\ s.kind = "fill" =>
                          /\ s.events[1].base_size <= s.base
                          /\ s.events[1].base_size <= s.maker.base_quantity
                          /\ s.events[1].quote_size <= s.quote
                          /\ s.base_after = s.base - s.events[1].base_size
                          /\ s.quote_after = s.quote - s.events[1].quote_size
          /\ last'.result = "ok" =>
                /\ last'.posted # NoLeaf =>
                      /\ last'.posted.base_quantity <= BaseLeft'
                      /\ fp32_mul(last'.posted.base_quantity, last'.arg.limit_price)
                           <= QuoteLeft'
                /\ last'.summary.total_base_qty \in 0 .. last'.arg.max_base_qty
                /\ last'.summary.total_quote_qty \in 0 .. last'.arg.max_quote_qty
                /\ last'.summary.total_base_qty_posted <= last'.summary.total_base_qty]_vars

\* A fill cut short by the quote the order had left, and the rest posted.
NoUnderflowWitness ==
    /\ NewOrderOk
    /\ Len(last.steps) >= 1
    /\ last.steps[1].kind = "fill"
    /\ last.steps[1].events[1].base_size
         < Min(last.steps[1].base, last.steps[1].maker.base_quantity)
    /\ last.steps[1].quote_after = 0

\* A post that takes all the quote the order had.
NoUnderflowPostWitness ==
    /\ NewOrderOk
    /\ last.posted # NoLeaf
    /\ last.summary.total_quote_qty = last.arg.max_quote_qty
    /\ last.summary.total_base_qty < last.arg.max_base_qty

\* The leaves a tree of SlabNodes nodes has room for.
LeafCapacity == (SlabNodes + 1) \div 2

\* The call is a new_order that must post: it may match, does not cross the
\* best opposite order, may post, and has more than the minimum to post.
MustPost(p) ==
    /\ p.match_limit > 0
    /\ ~Crossing(p)
    /\ p.post_allowed
    /\ BaseToPost(p) > min_base_order_size

\* C37: posting never aborts while leaf capacity remains: a new_order that
\* must post, on a side holding fewer resting orders than the tree has room
\* for, returns Ok with the order resting, however many orders were posted and
\* removed before.
PostNeverAborts ==
    [][(/\ last'.op = "new_order"
        /\ MustPost(last'.arg)
        /\ Cardinality(Tree(last'.arg.side).leaves) < LeafCapacity) =>
          /\ last'.result = "ok"
          /\ last'.posted # NoLeaf
          /\ last'.posted.key \in Keys(TreeAfter(last'.arg.side))]_vars

\* The same while the side's callback blob has room for one more entry.
PostNeverAbortsWithBlobRoom ==
    [][(/\ last'.op = "new_order"
        /\ MustPost(last'.arg)
        /\ Tree(last'.arg.side).cb_len < BlobCapacity
        /\ Cardinality(Tree(last'.arg.side).leaves) < LeafCapacity) =>
          /\ last'.result = "ok"
          /\ last'.posted # NoLeaf
          /\ last'.posted.key \in Keys(TreeAfter(last'.arg.side))]_vars

\* BlobCapacity bids were posted one after the other on an empty book and each
\* was filled whole (a Fill and an Out each); the next bid to post on the empty
\* book aborts: the bids' callback blob is used up.
BlobUsedUp ==
    /\ last.op = "new_order" /\ last.result = "panic"
    /\ last.arg.side = "Bid" /\ last.arg.post_allowed
    /\ bids.leaves = {} /\ asks.leaves = {}
    /\ bids.cb_len = BlobCapacity
    /\ queue.seq_num = 2 * BlobCapacity

\* C38: once close_market has succeeded (market tag = Uninitialized) every
\* later new_order, cancel_order, consume_events or close_market on that
\* market is rejected and changes nothing.
ClosedMarketRejects ==
    [][(last'.op \in MarketCalls /\ market.tag = "Uninitialized") =>
          /\ last'.result # "ok"
          /\ bids' = bids /\ asks' = asks /\ queue' = queue /\ market' = market]_vars

\* The native processor's new_order on a closed market is rejected with
\* InvalidAccountData and changes nothing.
ClosedMarketRejectsProcess ==
    [][(last'.op = "process" /\ market.tag = "Uninitialized") =>
          /\ last'.result = "InvalidAccountData"
          /\ bids' = bids /\ asks' = asks /\ queue' = queue /\ market' = market]_vars

\* An order rests on a market that was closed and not created again.
RestingOnClosedMarket ==
    /\ market.tag = "Uninitialized"
    /\ NewOrderOk
    /\ last.posted # NoLeaf
    /\ last.posted \in Resting

\* The price of the side's best order, or none on an empty side.
BestPrice(side) ==
    IF Tree(side).leaves = {} THEN NoOrder ELSE price(find_bbo(Book, side))

\* C39: get_spread returns the price of the best bid and the price of the best
\* ask, the lowest-priced resting ask that find_bbo(Ask) returns, and None for
\* an empty side.
SpreadIsBest ==
    [][last'.op = "get_spread" =>
          last'.summary = [best_bid_price |-> BestPrice("Bid"),
                           best_ask_price |-> BestPrice("Ask")]]_vars

\* What get_spread does return: the best bid's price, and the price of the
\* highest-priced resting ask; None for an empty side.
SpreadIsHighest ==
    [][last'.op = "get_spread" =>
          /\ last'.summary.best_bid_price = BestPrice("Bid")
          /\ last'.summary.best_ask_price
               = IF asks.leaves = {} THEN NoOrder
                 ELSE price(find_max(asks))
          /\ \A l \in asks.leaves : price(l.key) <= last'.summary.best_ask_price
          /\ bids' = bids /\ asks' = asks /\ queue' = queue]_vars

====
